---- MODULE Spec2Model ----
(***************************************************************************)
(* Billing audit pipeline: the reconciliation engine of audit_engine.py.  *)
(*                                                                         *)
(* Money is held in mills (thousandths of a currency unit), so 100.004 is *)
(* 100004 and TOLERANCE (0.01) is 10.  Quantities and band ceilings are   *)
(* whole units.  A pandas cell is a tagged value: a number, NaN (the      *)
(* missing marker read back from a workbook) or Python None.              *)
(***************************************************************************)
EXTENDS Integers, Sequences, FiniteSets, TLC

VARIABLES
    pb,                 \* the catalog frame read from pricebook_clean.xlsx
    sap,                \* the billing frame read from sap_clean.xlsx
    i,                  \* position of sap.iterrows()
    results,            \* the list `results`
    no_match_samples,   \* the debug list `no_match_samples`
    pc,                 \* where audit_engine.run stands
    args,               \* arguments of a direct call of a pure function
    ret,                \* what that call returned
    disk,               \* the files of the working directories, by path
    console             \* the log_warn / log_error lines printed so far

vars == <<pb, sap, i, results, no_match_samples, pc, args, ret, disk, console>>

(***************************************************************************)
(* Bounds of the model.                                                    *)
(***************************************************************************)
MaxPb    == 2      \* catalog rows in the audit loop
MaxRows  == 2      \* billing rows in the audit loop
MaxSlice == 3      \* catalog rows handed to find_tier_price directly

(***************************************************************************)
(* Values of a cell.                                                       *)
(***************************************************************************)
None   == [tag |-> "None", v |-> 0]
NaN    == [tag |-> "NaN",  v |-> 0]
Num(x) == [tag |-> "num",  v |-> x]

notna(x) == x.tag = "num"
isna(x)  == x.tag # "num"

TOLERANCE == 10

(***************************************************************************)
(* IEEE-754 doubles.  abs(a - b) <= TOLERANCE is decided by the exact     *)
(* difference except when that difference is exactly one cent: there the  *)
(* rounding of the two operands decides.  Float64WithinCent lists the     *)
(* pairs <<lo, lo + 10>> of the model's values for which the double       *)
(* computation abs(hi/1000 - lo/1000) <= 0.01 is true.                     *)
(***************************************************************************)
Float64WithinCent ==
    {<<0, 10>>, <<100010, 100020>>, <<499990, 500000>>, <<500000, 500010>>,
     <<540000, 540010>>}

AbsDiff(a, b) == IF a >= b THEN a - b ELSE b - a

\* abs(net_value - x) <= TOLERANCE for a double x (NaN compares false)
within_tolerance(net_value, x) ==
    /\ notna(x)
    /\ LET d == AbsDiff(net_value, x.v)
       IN  IF d = TOLERANCE
           THEN (IF net_value <= x.v THEN <<net_value, x.v>> ELSE <<x.v, net_value>>)
                    \in Float64WithinCent
           ELSE d < TOLERANCE

\* price * quantity on doubles (NaN propagates)
times(price, quantity) ==
    IF notna(price) /\ notna(quantity) THEN Num(price.v * quantity.v) ELSE NaN

(***************************************************************************)
(* find_tier_price                                                         *)
(***************************************************************************)
\* DataFrame.sort_values('max_band') on a frame without missing ceilings:
\* ascending, rows with equal ceilings keep their order
RECURSIVE sort_values(_)
sort_values(s) ==
    IF s = <<>> THEN <<>>
    ELSE LET rest == sort_values(SubSeq(s, 1, Len(s) - 1))
             r    == s[Len(s)]
             le   == SelectSeq(rest, LAMBDA e : e.max_band.v <= r.max_band.v)
             gt   == SelectSeq(rest, LAMBDA e : e.max_band.v >  r.max_band.v)
         IN  le \o <<r>> \o gt

\* a lookup that reports no band when the quantity exceeds every ceiling
find_tier_price_no_catch_all(quantity, pb_slice) ==
    LET banded   == SelectSeq(pb_slice, LAMBDA r : notna(r.max_band))
        unbanded == SelectSeq(pb_slice, LAMBDA r : isna(r.max_band))
    IN  IF banded # <<>>
        THEN LET banded_sorted == sort_values(banded)
                 matches == SelectSeq(banded_sorted,
                                LAMBDA r : r.max_band.v >= quantity)
             IN  IF matches # <<>>
                 THEN <<matches[1].max_band, matches[1].price_2025,
                        matches[1].price_2026>>
                 ELSE <<None, None, None>>
        ELSE IF unbanded # <<>>
        THEN <<None, unbanded[1].price_2025, unbanded[1].price_2026>>
        ELSE <<None, None, None>>

\* a lookup that takes the bands in catalog order, without sorting them
find_tier_price_unsorted(quantity, pb_slice) ==
    LET banded   == SelectSeq(pb_slice, LAMBDA r : notna(r.max_band))
        unbanded == SelectSeq(pb_slice, LAMBDA r : isna(r.max_band))
    IN  IF banded # <<>>
        THEN LET matches == SelectSeq(banded, LAMBDA r : r.max_band.v >= quantity)
                 row == IF matches # <<>> THEN matches[1] ELSE banded[Len(banded)]
             IN  <<row.max_band, row.price_2025, row.price_2026>>
        ELSE IF unbanded # <<>>
        THEN <<None, unbanded[1].price_2025, unbanded[1].price_2026>>
        ELSE <<None, None, None>>

find_tier_price(quantity, pb_slice) ==
    LET banded   == SelectSeq(pb_slice, LAMBDA r : notna(r.max_band))
        unbanded == SelectSeq(pb_slice, LAMBDA r : isna(r.max_band))
    IN  IF banded # <<>>
        THEN LET banded_sorted == sort_values(banded)
                 matches == SelectSeq(banded_sorted,
                                LAMBDA r : r.max_band.v >= quantity)
                 row == IF matches # <<>> THEN matches[1]
                        ELSE banded_sorted[Len(banded_sorted)]
             IN  <<row.max_band, row.price_2025, row.price_2026>>
        ELSE IF unbanded # <<>>
        THEN <<None, unbanded[1].price_2025, unbanded[1].price_2026>>
        ELSE <<None, None, None>>

(***************************************************************************)
(* classify                                                                *)
(***************************************************************************)
\* `quantity and quantity > 0`: None and 0 are falsy, NaN > 0 is false
positive(quantity) == notna(quantity) /\ quantity.v > 0

\* classify that looks at the prices before the sign of the net value
classify_prices_first(net_value, price_2025, price_2026, quantity) ==
    IF price_2025 = None /\ price_2026 = None THEN "NO_TIER_BAND_FOUND"
    ELSE IF net_value < 0 THEN "CREDIT"
    ELSE IF net_value = 0 THEN "BILLED_AT_ZERO"
    ELSE
    LET match_2025 == price_2025 # None /\ within_tolerance(net_value, price_2025)
        match_2026 == price_2026 # None /\ within_tolerance(net_value, price_2026)
        scaled     == ~match_2025 /\ ~match_2026 /\ positive(quantity)
        qty_2026   == price_2026 # None
                      /\ within_tolerance(net_value, times(price_2026, quantity))
        qty_2025   == price_2025 # None
                      /\ within_tolerance(net_value, times(price_2025, quantity))
        m25        == IF scaled /\ qty_2025 THEN TRUE  ELSE match_2025
        m26        == IF scaled /\ qty_2025 THEN FALSE ELSE match_2026
    IN  IF scaled /\ qty_2026 THEN "CORRECT_2026"
        ELSE IF m25 /\ m26 THEN "PRICE_UNCHANGED"
        ELSE IF m26 THEN "CORRECT_2026"
        ELSE IF m25 THEN "OLD_PRICE_2025"
        ELSE "NO_MATCH"

\* classify without its final return
classify_falls_through(net_value, price_2025, price_2026, quantity) ==
    IF net_value < 0 THEN "CREDIT"
    ELSE IF net_value = 0 THEN "BILLED_AT_ZERO"
    ELSE IF price_2025 = None /\ price_2026 = None THEN "NO_TIER_BAND_FOUND"
    ELSE
    LET match_2025 == price_2025 # None /\ within_tolerance(net_value, price_2025)
        match_2026 == price_2026 # None /\ within_tolerance(net_value, price_2026)
        scaled     == ~match_2025 /\ ~match_2026 /\ positive(quantity)
        qty_2026   == price_2026 # None
                      /\ within_tolerance(net_value, times(price_2026, quantity))
        qty_2025   == price_2025 # None
                      /\ within_tolerance(net_value, times(price_2025, quantity))
        m25        == IF scaled /\ qty_2025 THEN TRUE  ELSE match_2025
        m26        == IF scaled /\ qty_2025 THEN FALSE ELSE match_2026
    IN  IF scaled /\ qty_2026 THEN "CORRECT_2026"
        ELSE IF m25 /\ m26 THEN "PRICE_UNCHANGED"
        ELSE IF m26 THEN "CORRECT_2026"
        ELSE IF m25 THEN "OLD_PRICE_2025"
        ELSE "None"

\* classify whose block of quantity-scaled tests begins at the prior-year test
classify_without_first_scaled_check(net_value, price_2025, price_2026, quantity) ==
    IF net_value < 0 THEN "CREDIT"
    ELSE IF net_value = 0 THEN "BILLED_AT_ZERO"
    ELSE IF price_2025 = None /\ price_2026 = None THEN "NO_TIER_BAND_FOUND"
    ELSE
    LET match_2025 == price_2025 # None /\ within_tolerance(net_value, price_2025)
        match_2026 == price_2026 # None /\ within_tolerance(net_value, price_2026)
        scaled     == ~match_2025 /\ ~match_2026 /\ positive(quantity)
        qty_2025   == price_2025 # None
                      /\ within_tolerance(net_value, times(price_2025, quantity))
        recheck    == price_2026 # None /\ price_2025 # None
                      /\ within_tolerance(net_value, times(price_2026, quantity))
        m25        == IF scaled /\ qty_2025 THEN TRUE  ELSE match_2025
        m26        == IF scaled /\ qty_2025 THEN FALSE ELSE match_2026
    IN  IF scaled /\ recheck THEN "CORRECT_2026"
        ELSE IF m25 /\ m26 THEN "PRICE_UNCHANGED"
        ELSE IF m26 THEN "CORRECT_2026"
        ELSE IF m25 THEN "OLD_PRICE_2025"
        ELSE "NO_MATCH"

classify(net_value, price_2025, price_2026, quantity) ==
    IF net_value < 0 THEN "CREDIT"
    ELSE IF net_value = 0 THEN "BILLED_AT_ZERO"
    ELSE IF price_2025 = None /\ price_2026 = None THEN "NO_TIER_BAND_FOUND"
    ELSE
    LET match_2025 == price_2025 # None /\ within_tolerance(net_value, price_2025)
        match_2026 == price_2026 # None /\ within_tolerance(net_value, price_2026)
        scaled     == ~match_2025 /\ ~match_2026 /\ positive(quantity)
        qty_2026   == price_2026 # None
                      /\ within_tolerance(net_value, times(price_2026, quantity))
        qty_2025   == price_2025 # None
                      /\ within_tolerance(net_value, times(price_2025, quantity))
        recheck    == price_2026 # None /\ price_2025 # None
                      /\ within_tolerance(net_value, times(price_2026, quantity))
        m25        == IF scaled /\ qty_2025 THEN TRUE  ELSE match_2025
        m26        == IF scaled /\ qty_2025 THEN FALSE ELSE match_2026
    IN  IF scaled /\ qty_2026 THEN "CORRECT_2026"
        ELSE IF scaled /\ recheck THEN "CORRECT_2026"
        ELSE IF m25 /\ m26 THEN "PRICE_UNCHANGED"
        ELSE IF m26 THEN "CORRECT_2026"
        ELSE IF m25 THEN "OLD_PRICE_2025"
        ELSE "NO_MATCH"

(***************************************************************************)
(* audit_engine.run: the frames and the audit loop                         *)
(***************************************************************************)
NoTab == "<None>"

\* round(net_value - price_2026, 2): the nearest cent of the difference (the
\* values of the audit loop are whole cents, so no difference is a half cent)
round2(d) ==
    LET a == IF d >= 0 THEN d ELSE -d
        r == ((a + 5) \div 10) * 10
    IN  IF d >= 0 THEN r ELSE -r

variance_vs_2026(net_value, price_2026) ==
    IF price_2026 = None THEN None
    ELSE IF isna(price_2026) THEN NaN
    ELSE Num(round2(net_value - price_2026.v))

numeric_pb == SelectSeq(pb, LAMBDA r : ~r.is_custom)
custom_pb  == SelectSeq(pb, LAMBDA r : r.is_custom)
\* custom status that yields to a numeric entry of the same material
custom_materials_unless_priced ==
    {custom_pb[k].material : k \in 1..Len(custom_pb)}
    \ {numeric_pb[k].material : k \in 1..Len(numeric_pb)}

custom_materials == {custom_pb[k].material : k \in 1..Len(custom_pb)}

pb_slice_of(material, currency) ==
    SelectSeq(numeric_pb, LAMBDA r : r.material = material /\ r.currency = currency)
pb_mat_of(material) ==
    SelectSeq(numeric_pb, LAMBDA r : r.material = material)

\* result = row.to_dict(); result.update({...})
result_of(row, tier_max, price_2025, price_2026, variance, src, flag) ==
    [material |-> row.material, currency |-> row.currency,
     quantity |-> row.quantity, net_value |-> row.net_value,
     tier_max_band |-> tier_max, price_2025 |-> price_2025,
     price_2026 |-> price_2026, variance_vs_2026 |-> variance,
     source_tab |-> src, audit_flag |-> flag]

MaxSamples == 5

\* a custom-priced line that is skipped without a result
CustomRow_dropped ==
    /\ pc = "loop" /\ i <= Len(sap)
    /\ sap[i].material \in {custom_pb[k].material : k \in 1..Len(custom_pb)}
    /\ i' = i + 1
    /\ UNCHANGED <<pb, sap, results, no_match_samples, pc, args, ret, disk, console>>

\* lines 177-187: the material is custom-priced
CustomRow ==
    /\ pc = "loop" /\ i <= Len(sap)
    /\ sap[i].material \in custom_materials
    /\ LET row == sap[i]
           src == SelectSeq(custom_pb, LAMBDA r : r.material = row.material)[1].source_tab
       IN  results' = Append(results,
               result_of(row, None, None, None, None, src, "CUSTOM_PRICING"))
    /\ i' = i + 1
    /\ UNCHANGED <<pb, sap, no_match_samples, pc, args, ret, disk, console>>

\* an unpriced line whose material is looked up in the empty slice
UnpricedRow_from_slice ==
    /\ pc = "loop" /\ i <= Len(sap)
    /\ sap[i].material \notin custom_materials
    /\ pb_slice_of(sap[i].material, sap[i].currency) = <<>>
    /\ results' = Append(results,
           result_of(sap[i], None, None, None, None, NoTab, "NOT_IN_PRICEBOOK"))
    /\ i' = i + 1
    /\ UNCHANGED <<pb, sap, no_match_samples, pc, args, ret, disk, console>>

\* lines 195-216: no numeric entry for (material, currency)
UnpricedRow ==
    /\ pc = "loop" /\ i <= Len(sap)
    /\ sap[i].material \notin custom_materials
    /\ pb_slice_of(sap[i].material, sap[i].currency) = <<>>
    /\ LET row    == sap[i]
           pb_mat == pb_mat_of(row.material)
           flag   == IF pb_mat = <<>> THEN "NOT_IN_PRICEBOOK" ELSE "NO_PRICEBOOK_CURRENCY"
           src    == IF pb_mat = <<>> THEN NoTab ELSE pb_mat[1].source_tab
       IN  /\ results' = Append(results,
                  result_of(row, None, None, None, None, src, flag))
           /\ no_match_samples' =
                  IF pb_mat # <<>> /\ Len(no_match_samples) < MaxSamples
                  THEN Append(no_match_samples,
                              [material |-> row.material, currency |-> row.currency])
                  ELSE no_match_samples
    /\ i' = i + 1
    /\ UNCHANGED <<pb, sap, pc, args, ret, disk, console>>

\* a quantity-0 line that keeps the flag classify gave it
ZeroQtyRow_kept ==
    /\ pc = "loop" /\ i <= Len(sap)
    /\ sap[i].material \notin custom_materials
    /\ pb_slice_of(sap[i].material, sap[i].currency) # <<>>
    /\ sap[i].quantity = 0
    /\ LET row      == sap[i]
           pb_slice == pb_slice_of(row.material, row.currency)
           row_pb   == pb_slice[1]
           flag     == classify(row.net_value, row_pb.price_2025, row_pb.price_2026, None)
       IN  results' = Append(results,
               result_of(row, None, row_pb.price_2025, row_pb.price_2026,
                         variance_vs_2026(row.net_value, row_pb.price_2026),
                         pb_slice[1].source_tab, flag))
    /\ i' = i + 1
    /\ UNCHANGED <<pb, sap, no_match_samples, pc, args, ret, disk, console>>

\* a quantity-0 line sent through the band lookup like any other
ZeroQtyRow_by_band ==
    /\ pc = "loop" /\ i <= Len(sap)
    /\ sap[i].material \notin custom_materials
    /\ pb_slice_of(sap[i].material, sap[i].currency) # <<>>
    /\ sap[i].quantity = 0
    /\ LET row      == sap[i]
           pb_slice == pb_slice_of(row.material, row.currency)
           tier     == find_tier_price(row.quantity, pb_slice)
           flag0    == classify(row.net_value, tier[2], tier[3], None)
           flag     == IF flag0 = "NO_MATCH" THEN "ZERO_QTY_FLAT_PRICE" ELSE flag0
       IN  results' = Append(results,
               result_of(row, tier[1], tier[2], tier[3],
                         variance_vs_2026(row.net_value, tier[3]),
                         pb_slice[1].source_tab, flag))
    /\ i' = i + 1
    /\ UNCHANGED <<pb, sap, no_match_samples, pc, args, ret, disk, console>>

\* lines 218-227 and 232-243: a quantity-0 line, priced from the first entry
ZeroQtyRow ==
    /\ pc = "loop" /\ i <= Len(sap)
    /\ sap[i].material \notin custom_materials
    /\ pb_slice_of(sap[i].material, sap[i].currency) # <<>>
    /\ sap[i].quantity = 0
    /\ LET row        == sap[i]
           pb_slice   == pb_slice_of(row.material, row.currency)
           row_pb     == pb_slice[1]
           price_2025 == row_pb.price_2025
           price_2026 == row_pb.price_2026
           flag0      == classify(row.net_value, price_2025, price_2026, None)
           flag       == IF flag0 = "NO_MATCH" THEN "ZERO_QTY_FLAT_PRICE" ELSE flag0
       IN  results' = Append(results,
               result_of(row, None, price_2025, price_2026,
                         variance_vs_2026(row.net_value, price_2026),
                         pb_slice[1].source_tab, flag))
    /\ i' = i + 1
    /\ UNCHANGED <<pb, sap, no_match_samples, pc, args, ret, disk, console>>

\* a banded line that reuses the lookup of the line before it when that line
\* was for the same material and currency
TieredRow_cached ==
    /\ pc = "loop" /\ i <= Len(sap)
    /\ sap[i].material \notin custom_materials
    /\ pb_slice_of(sap[i].material, sap[i].currency) # <<>>
    /\ sap[i].quantity # 0
    /\ LET row      == sap[i]
           pb_slice == pb_slice_of(row.material, row.currency)
           reuse    == /\ results # <<>>
                       /\ results[Len(results)].material = row.material
                       /\ results[Len(results)].currency = row.currency
           tier     == IF reuse
                       THEN <<results[Len(results)].tier_max_band,
                              results[Len(results)].price_2025,
                              results[Len(results)].price_2026>>
                       ELSE find_tier_price(row.quantity, pb_slice)
           flag     == classify(row.net_value, tier[2], tier[3], Num(row.quantity))
       IN  results' = Append(results,
               result_of(row, tier[1], tier[2], tier[3],
                         variance_vs_2026(row.net_value, tier[3]),
                         pb_slice[1].source_tab, flag))
    /\ i' = i + 1
    /\ UNCHANGED <<pb, sap, no_match_samples, pc, args, ret, disk, console>>

\* a banded line whose variance is taken against the 2025 price
TieredRow_variance_vs_2025 ==
    /\ pc = "loop" /\ i <= Len(sap)
    /\ sap[i].material \notin custom_materials
    /\ pb_slice_of(sap[i].material, sap[i].currency) # <<>>
    /\ sap[i].quantity # 0
    /\ LET row      == sap[i]
           pb_slice == pb_slice_of(row.material, row.currency)
           tier     == find_tier_price(row.quantity, pb_slice)
           flag     == classify(row.net_value, tier[2], tier[3], Num(row.quantity))
       IN  results' = Append(results,
               result_of(row, tier[1], tier[2], tier[3],
                         variance_vs_2026(row.net_value, tier[2]),
                         pb_slice[1].source_tab, flag))
    /\ i' = i + 1
    /\ UNCHANGED <<pb, sap, no_match_samples, pc, args, ret, disk, console>>

\* lines 228-243: a line with a quantity, priced by its band
TieredRow ==
    /\ pc = "loop" /\ i <= Len(sap)
    /\ sap[i].material \notin custom_materials
    /\ pb_slice_of(sap[i].material, sap[i].currency) # <<>>
    /\ sap[i].quantity # 0
    /\ LET row      == sap[i]
           pb_slice == pb_slice_of(row.material, row.currency)
           tier     == find_tier_price(row.quantity, pb_slice)
           flag     == classify(row.net_value, tier[2], tier[3], Num(row.quantity))
       IN  results' = Append(results,
               result_of(row, tier[1], tier[2], tier[3],
                         variance_vs_2026(row.net_value, tier[3]),
                         pb_slice[1].source_tab, flag))
    /\ i' = i + 1
    /\ UNCHANGED <<pb, sap, no_match_samples, pc, args, ret, disk, console>>

\* validation.validate_audit_result: "ok", or the AuditValidationError raised
validate_audit_result(audit_df, sap_row_count) ==
    IF Len(audit_df) # sap_row_count THEN "Row count mismatch"
    ELSE IF \E k \in 1..Len(audit_df) : audit_df[k].audit_flag = "None"
         THEN "Unflagged rows"
    ELSE "ok"

\* lines 252-277: the loop is over, the frame is built and validated
Validate ==
    /\ pc = "loop" /\ i > Len(sap)
    /\ pc' = IF validate_audit_result(results, Len(sap)) = "ok"
             THEN "validated" ELSE "failed"
    /\ UNCHANGED <<pb, sap, i, results, no_match_samples, args, ret, disk, console>>

(***************************************************************************)
(* The frames the audit loop starts from                                   *)
(***************************************************************************)
\* rows of pricebook_clean.xlsx as read back: a missing cell is NaN
NumericRows ==
    [material : {"X", "Y"}, currency : {"USD", "EUR"},
     max_band : {NaN, Num(10)},
     price_2025 : {Num(100000)}, price_2026 : {Num(108000)},
     source_tab : {"T1"}, is_custom : {FALSE}]
    \cup
    [material : {"X"}, currency : {"USD"}, max_band : {Num(50)},
     price_2025 : {Num(100000), NaN}, price_2026 : {Num(100000)},
     source_tab : {"T2"}, is_custom : {FALSE}]

CustomRows ==
    [material : {"X", "Y"}, currency : {"USD"}, max_band : {NaN},
     price_2025 : {NaN}, price_2026 : {NaN},
     source_tab : {"T2"}, is_custom : {TRUE}]

PbRows == NumericRows \cup CustomRows

\* pricebook_cleaner.run writes the catalog sorted by material, currency and
\* max_band, rows without a ceiling last
SortKey(r) ==
    (IF r.material = "X" THEN 0 ELSE 1000)
    + (IF r.currency = "EUR" THEN 0 ELSE 100)
    + (IF notna(r.max_band) THEN r.max_band.v ELSE 99)

IsSorted(s) == \A k \in 1..(Len(s) - 1) : SortKey(s[k]) <= SortKey(s[k + 1])

SeqsUpTo(S, n) == UNION {[1..m -> S] : m \in 0..n}

Catalogs == {s \in SeqsUpTo(PbRows, MaxPb) : IsSorted(s)}

\* rows of sap_clean.xlsx: quantity is never missing (fillna(0)), net_value
\* is never missing (such rows are dropped)
SapRows ==
    {[material |-> m, currency |-> "USD", quantity |-> qn[1], net_value |-> qn[2]] :
        m \in {"X", "Y"},
        qn \in {<<0, 108000>>, <<0, 250000>>, <<5, 100000>>, <<5, 540000>>,
                <<15, -12000>>, <<15, 0>>, <<15, 108000>>}}

Billings == SeqsUpTo(SapRows, MaxRows)

Init ==
    /\ pb \in Catalogs
    /\ sap \in Billings
    /\ i = 1
    /\ results = <<>>
    /\ no_match_samples = <<>>
    /\ pc = "loop"
    /\ args = <<>>
    /\ ret = <<>>
    /\ disk = <<>> /\ console = {}

Next ==
    \/ CustomRow
    \/ UnpricedRow
    \/ ZeroQtyRow
    \/ TieredRow
    \/ Validate

Spec == Init /\ [][Next]_vars

(***************************************************************************)
(* find_tier_price called directly, on every slice and quantity            *)
(***************************************************************************)
Ceilings == {10, 50, 9999}

TierRows ==
    [max_band : {NaN} \cup {Num(c) : c \in Ceilings},
     price_2025 : {Num(100000), Num(90000)}, price_2026 : {Num(108000)}]
    \cup
    [max_band : {NaN} \cup {Num(c) : c \in Ceilings},
     price_2025 : {NaN}, price_2026 : {Num(97000)}]

TierQuantities == {1, 10, 11, 50, 51, 9999, 20000}

TierInit ==
    /\ args \in [quantity : TierQuantities, pb_slice : SeqsUpTo(TierRows, MaxSlice)]
    /\ ret = <<>>
    /\ disk = <<>> /\ console = {}
    /\ pc = "call"
    /\ pb = <<>> /\ sap = <<>> /\ i = 1 /\ results = <<>> /\ no_match_samples = <<>>

CallFindTierPrice ==
    /\ pc = "call"
    /\ ret' = find_tier_price(args.quantity, args.pb_slice)
    /\ pc' = "returned"
    /\ UNCHANGED <<pb, sap, i, results, no_match_samples, args, disk, console>>

TierNext == CallFindTierPrice

TierSpec == TierInit /\ [][TierNext]_vars

(***************************************************************************)
(* classify called directly, on every combination of arguments             *)
(***************************************************************************)
NetValues ==
    {-12000, -5, 0, 5, 10, 99980, 99990, 99996, 100000, 100004, 100010, 100020,
     108000, 250000, 499990, 500000, 500010, 500050, 540000, 540010}

Prices == {None, NaN, Num(20000), Num(100000), Num(100010), Num(108000)}

\* None: the argument is left out, as for a quantity-0 line
Quantities == {None, Num(0), Num(1), Num(5), Num(-2)}

ClassifyInit ==
    /\ args \in [net_value : NetValues, price_2025 : Prices,
                 price_2026 : Prices, quantity : Quantities]
    /\ ret = "pending"
    /\ disk = <<>> /\ console = {}
    /\ pc = "call"
    /\ pb = <<>> /\ sap = <<>> /\ i = 1 /\ results = <<>> /\ no_match_samples = <<>>

CallClassify ==
    /\ pc = "call"
    /\ ret' = classify(args.net_value, args.price_2025, args.price_2026, args.quantity)
    /\ pc' = "returned"
    /\ UNCHANGED <<pb, sap, i, results, no_match_samples, args, disk, console>>

ClassifyNext == CallClassify

ClassifySpec == ClassifyInit /\ [][ClassifyNext]_vars

(***************************************************************************)
(* Properties of the audit loop                                            *)
(***************************************************************************)
AuditFlags ==
    {"CORRECT_2026", "PRICE_UNCHANGED", "OLD_PRICE_2025", "NO_MATCH",
     "CUSTOM_PRICING", "NOT_IN_PRICEBOOK", "NO_PRICEBOOK_CURRENCY",
     "NO_TIER_BAND_FOUND", "ZERO_QTY_FLAT_PRICE", "BILLED_AT_ZERO", "CREDIT"}

\* the billing fields a result carries are those of billing row k
SameLine(res, row) ==
    /\ res.material = row.material /\ res.currency = row.currency
    /\ res.quantity = row.quantity /\ res.net_value = row.net_value

\* C1: cardinality preservation.  The loop has appended exactly one result
\* per billing row it has passed, result k is the result of billing row k,
\* so after the loop the result set has exactly N rows in input order and
\* validation never fails; validate_audit_result raises for every other count.
C1_CardinalityPreserved ==
    /\ i \in 1..(Len(sap) + 1)
    /\ Len(results) = i - 1
    /\ \A k \in 1..Len(results) : SameLine(results[k], sap[k])
    /\ pc # "loop" => Len(results) = Len(sap)
    /\ pc # "failed"
    /\ \A n \in 0..(MaxRows + 2) :
          n # Len(results) =>
              validate_audit_result(results, n) = "Row count mismatch"

\* a finished audit of a full-size billing frame whose first line took the
\* custom branch and whose last line took another one
C1_Witness ==
    /\ pc = "validated"
    /\ Len(sap) = MaxRows
    /\ Len(results) = MaxRows
    /\ results[1].audit_flag = "CUSTOM_PRICING"
    /\ results[MaxRows].audit_flag = "NO_PRICEBOOK_CURRENCY"

\* C2: flag totality.  Every result row carries a flag (never None) and the
\* flag is one of the 11 values of the enumeration.
C2_FlagTotality ==
    \A k \in 1..Len(results) :
        /\ results[k].audit_flag # "None"
        /\ results[k].audit_flag \in AuditFlags

\* a finished audit holding a line nothing matched and an unchanged price
C2_Witness ==
    /\ pc = "validated"
    /\ \E k \in 1..Len(results) : results[k].audit_flag = "NO_MATCH"
    /\ \E k \in 1..Len(results) : results[k].audit_flag = "PRICE_UNCHANGED"

CeilingsOf(s) == {s[k].max_band.v : k \in {j \in 1..Len(s) : notna(s[j].max_band)}}

\* what find_tier_price returns for an entry of s with ceiling c
BandOutputs(s, c) ==
    {<<s[k].max_band, s[k].price_2025, s[k].price_2026>> :
        k \in {j \in 1..Len(s) : s[j].max_band = Num(c)}}

Largest(S)  == CHOOSE x \in S : \A y \in S : y <= x
Smallest(S) == CHOOSE x \in S : \A y \in S : x <= y

\* C4: band catch-all.  When the slice has a banded entry and the quantity
\* exceeds every ceiling, the lookup returns the ceiling and both prices of an
\* entry with the largest ceiling, never (None, None, None).
C4_BandCatchAll ==
    (/\ pc = "returned"
     /\ CeilingsOf(args.pb_slice) # {}
     /\ \A c \in CeilingsOf(args.pb_slice) : args.quantity > c)
    => /\ ret \in BandOutputs(args.pb_slice, Largest(CeilingsOf(args.pb_slice)))
       /\ ret # <<None, None, None>>

\* ceilings 10, 50 and 9999 with quantity 20000 resolve to the 9999 band
C4_Witness ==
    /\ pc = "returned"
    /\ CeilingsOf(args.pb_slice) = {10, 50, 9999}
    /\ args.quantity = 20000
    /\ ret[1] = Num(9999)

\* C5: tier lookup.  (a) some ceiling >= quantity: an entry with the smallest
\* such ceiling; (b) banded entries but none qualifies: an entry with the
\* largest ceiling; (c) no banded entry: the first entry, with a None ceiling;
\* (d) empty slice: (None, None, None).  With a banded entry present the
\* result is never an unbanded one.
C5_TierLookup ==
    pc = "returned" =>
    LET s    == args.pb_slice
        ceil == CeilingsOf(s)
        qual == {c \in ceil : c >= args.quantity}
    IN  /\ qual # {} => ret \in BandOutputs(s, Smallest(qual))
        /\ (ceil # {} /\ qual = {}) => ret \in BandOutputs(s, Largest(ceil))
        /\ (ceil = {} /\ s # <<>>) =>
               ret = <<None, s[1].price_2025, s[1].price_2026>>
        /\ s = <<>> => ret = <<None, None, None>>
        /\ ceil # {} => notna(ret[1])

\* a slice that starts with an unbanded entry and lists the 50 band before
\* the 10 band, asked for quantity 10: the 10 band is returned
C5_Witness ==
    /\ pc = "returned"
    /\ Len(args.pb_slice) = 3
    /\ isna(args.pb_slice[1].max_band)
    /\ args.pb_slice[2].max_band = Num(50)
    /\ args.pb_slice[3].max_band = Num(10)
    /\ args.quantity = 10
    /\ ret[1] = Num(10)

(***************************************************************************)
(* Properties of classify (ClassifySpec)                                   *)
(***************************************************************************)
\* C6: the first three rules in fixed precedence.  A negative net value is a
\* CREDIT and a zero one BILLED_AT_ZERO whatever the prices and the quantity;
\* a positive one with both prices None is NO_TIER_BAND_FOUND.
C6_SignRulesFirst ==
    pc = "returned" =>
        /\ args.net_value < 0 => ret = "CREDIT"
        /\ args.net_value = 0 => ret = "BILLED_AT_ZERO"
        /\ (args.net_value > 0 /\ args.price_2025 = None /\ args.price_2026 = None)
               => ret = "NO_TIER_BAND_FOUND"

\* a negative net value with both prices None and a quantity: CREDIT
C6_Witness ==
    /\ pc = "returned"
    /\ args.net_value < 0
    /\ args.price_2025 = None /\ args.price_2026 = None
    /\ positive(args.quantity)
    /\ ret = "CREDIT"

\* |net_value - x| <= 0.01 in exact decimal arithmetic
decimal_match(net_value, x) ==
    notna(x) /\ AbsDiff(net_value, x.v) <= TOLERANCE

\* a quantity-scaled price is compared only for a quantity > 0
ScaledMatch(M(_, _), net_value, price, quantity) ==
    positive(quantity) /\ M(net_value, times(price, quantity))

\* C7: tolerance symmetry, as claimed.  With only a current price, the flag
\* is CORRECT_2026 exactly when |net_value - price_2026| <= 0.01 and NO_MATCH
\* exactly when it is larger, above and below the price alike.
C7_ToleranceInclusive ==
    (/\ pc = "returned"
     /\ args.net_value > 0
     /\ args.price_2025 = None /\ notna(args.price_2026)
     /\ args.quantity = None)
    => ret = IF decimal_match(args.net_value, args.price_2026)
             THEN "CORRECT_2026" ELSE "NO_MATCH"

\* the two cases the claim names: 100.004 and 100.02 against a price of 100.00
C7_NamedCases ==
    (/\ pc = "returned"
     /\ args.price_2025 = None /\ args.price_2026 = Num(100000)
     /\ args.quantity = None)
    => /\ args.net_value = 100004 => ret = "CORRECT_2026"
       /\ args.net_value = 100020 => ret = "NO_MATCH"

\* unit-price resolution for a test M of a value against a price
UnitPriceResolution(M(_, _)) ==
    (/\ pc = "returned"
     /\ args.net_value > 0
     /\ notna(args.price_2025) \/ notna(args.price_2026))
    => LET n   == args.net_value
           u25 == M(n, args.price_2025)
           u26 == M(n, args.price_2026)
           s25 == ScaledMatch(M, n, args.price_2025, args.quantity)
           s26 == ScaledMatch(M, n, args.price_2026, args.quantity)
       IN  /\ (u25 /\ u26) => ret = "PRICE_UNCHANGED"
           /\ (u26 /\ ~u25) => ret = "CORRECT_2026"
           /\ (u25 /\ ~u26) => ret = "OLD_PRICE_2025"
           /\ ret = "NO_MATCH" <=> (~u25 /\ ~u26 /\ ~s25 /\ ~s26)

\* C8: unit-price resolution, as claimed (a match is |difference| <= 0.01).
C8_UnitPriceResolution == UnitPriceResolution(decimal_match)

\* the same resolution, a match being the comparison classify computes
C8_ResolutionOfComputedMatches == UnitPriceResolution(within_tolerance)

\* quantity-scaled matching for a test M of a value against a price: the
\* products are compared only when no unit price matches and quantity > 0;
\* otherwise the flag is the one classify gives with the quantity left out
QuantityScaledMatching(M(_, _)) ==
    (/\ pc = "returned"
     /\ args.net_value > 0
     /\ ~(args.price_2025 = None /\ args.price_2026 = None))
    => LET n      == args.net_value
           u25    == M(n, args.price_2025)
           u26    == M(n, args.price_2026)
           tested == ~u25 /\ ~u26 /\ positive(args.quantity)
           s25    == M(n, times(args.price_2025, args.quantity))
           s26    == M(n, times(args.price_2026, args.quantity))
       IN  /\ (tested /\ s26) => ret = "CORRECT_2026"
           /\ (tested /\ s25 /\ ~s26) => ret = "OLD_PRICE_2025"
           /\ (tested /\ ~s25 /\ ~s26) => ret = "NO_MATCH"
           /\ ~tested => ret = classify(n, args.price_2025, args.price_2026, None)

\* C9: quantity-scaled matching, as claimed (a match is |difference| <= 0.01).
C9_QuantityScaledMatching == QuantityScaledMatching(decimal_match)

\* the same rule, a match being the comparison classify computes
C9_ScalingOfComputedMatches == QuantityScaledMatching(within_tolerance)

\* C10: zero-quantity reclassification.  For a quantity-0 line with numeric
\* entries in the billed currency, classify's NO_MATCH becomes
\* ZERO_QTY_FLAT_PRICE and every other flag is kept (flat entry 100/108: net
\* 108.00 gives CORRECT_2026, net 250.00 ZERO_QTY_FLAT_PRICE); no quantity-0
\* line is flagged NO_MATCH and only quantity-0 lines are flagged
\* ZERO_QTY_FLAT_PRICE.
C10_ZeroQtyReclassified ==
    \A k \in 1..Len(results) :
        LET row   == sap[k]
            slice == pb_slice_of(row.material, row.currency)
            flag  == results[k].audit_flag
        IN  /\ (/\ row.quantity = 0
                /\ row.material \notin custom_materials
                /\ slice # <<>>)
               => LET f == classify(row.net_value, slice[1].price_2025,
                                    slice[1].price_2026, None)
                  IN  /\ f = "NO_MATCH" => flag = "ZERO_QTY_FLAT_PRICE"
                      /\ f # "NO_MATCH" => flag = f
                      /\ (/\ slice[1].price_2025 = Num(100000)
                          /\ slice[1].price_2026 = Num(108000))
                         => /\ row.net_value = 108000 => flag = "CORRECT_2026"
                            /\ row.net_value = 250000 => flag = "ZERO_QTY_FLAT_PRICE"
            /\ row.quantity = 0 => flag # "NO_MATCH"
            /\ flag = "ZERO_QTY_FLAT_PRICE" => row.quantity = 0

\* a finished audit against a flat 100/108 entry: the quantity-0 line billed
\* 108.00 is CORRECT_2026, the one billed 250.00 is ZERO_QTY_FLAT_PRICE
C10_Witness ==
    /\ pc = "validated"
    /\ \E k \in 1..Len(results) :
          /\ results[k].quantity = 0 /\ results[k].net_value = 108000
          /\ results[k].price_2025 = Num(100000)
          /\ results[k].price_2026 = Num(108000)
          /\ results[k].audit_flag = "CORRECT_2026"
    /\ \E k \in 1..Len(results) :
          /\ results[k].quantity = 0 /\ results[k].net_value = 250000
          /\ results[k].audit_flag = "ZERO_QTY_FLAT_PRICE"

\* the catalog has a numeric row of this material (in this currency)
HasNumeric(material) ==
    \E r \in 1..Len(pb) : ~pb[r].is_custom /\ pb[r].material = material
HasNumericIn(material, currency) ==
    \E r \in 1..Len(pb) :
        ~pb[r].is_custom /\ pb[r].material = material /\ pb[r].currency = currency
HasCustom(material) ==
    \E r \in 1..Len(pb) : pb[r].is_custom /\ pb[r].material = material

NoLookup(res) ==
    /\ res.tier_max_band = None /\ res.price_2025 = None
    /\ res.price_2026 = None /\ res.variance_vs_2026 = None

\* C11: pre-classification routing.  A line of a non-custom material is
\* NOT_IN_PRICEBOOK exactly when the catalog has no numeric entry of the
\* material in any currency, and NO_PRICEBOOK_CURRENCY exactly when it has
\* numeric entries but none in the billed currency; band, prices and
\* variance are then None.
C11_PreClassificationRouting ==
    \A k \in 1..Len(results) :
        LET row  == sap[k]
            flag == results[k].audit_flag
            absent == ~HasCustom(row.material) /\ ~HasNumeric(row.material)
            gap    == /\ ~HasCustom(row.material) /\ HasNumeric(row.material)
                      /\ ~HasNumericIn(row.material, row.currency)
        IN  /\ flag = "NOT_IN_PRICEBOOK" <=> absent
            /\ flag = "NO_PRICEBOOK_CURRENCY" <=> gap
            /\ (absent \/ gap) => NoLookup(results[k])

\* a finished audit with a line of a material the catalog lacks and a line
\* of a material priced only in another currency
C11_Witness ==
    /\ pc = "validated"
    /\ \E k \in 1..Len(results) :
          results[k].audit_flag = "NOT_IN_PRICEBOOK" /\ ~HasNumeric(sap[k].material)
    /\ \E k \in 1..Len(results) :
          /\ results[k].audit_flag = "NO_PRICEBOOK_CURRENCY"
          /\ HasNumericIn(sap[k].material, "EUR")

(***************************************************************************)
(* run_audit.main: the three stages over the files of the working          *)
(* directories.  A file is known by its row counts and by the run that     *)
(* wrote it; the rows themselves are the business of Spec above.           *)
(***************************************************************************)
Dirs == {"Downloads", "OneDrive"}

\* Path(OUTPUT_FILE).parent
out_dir == "Downloads"

PRICEBOOK_CLEAN == <<out_dir, "pricebook_clean.xlsx">>
SAP_CLEAN       == <<out_dir, "sap_clean.xlsx">>
OUTPUT_FILE     == <<out_dir, "billing_audit.xlsx">>
RUN_LOG         == <<out_dir, "run_log.txt">>

Paths ==
    (Dirs \X {"pricebook_clean.xlsx", "sap_clean.xlsx"}) \cup {OUTPUT_FILE, RUN_LOG}

NoFile == [exists |-> FALSE, rows |-> 0, numeric |-> 0, run |-> "none", styled |-> FALSE]

File(rows, numeric, run, styled) ==
    [exists |-> TRUE, rows |-> rows, numeric |-> numeric, run |-> run, styled |-> styled]

\* what an earlier month's run left behind
EarlierCatalog == File(7200, 7100, "earlier", FALSE)
EarlierBilling == File(600, 0, "earlier", FALSE)
EarlierOutput  == File(600, 0, "earlier", TRUE)

\* the price book workbook: row counts are what process_tab extracts from it
PricebookInputs ==
    [status : {"missing", "unreadable"}, numeric : {0}, custom : {0}]
    \cup [status : {"ok"}, numeric : {0, 300, 999, 5000, 7000}, custom : {0, 1}]

\* the billing export: rows are the lines that survive cleaning
SapInputs ==
    [status : {"missing", "unreadable", "no_header", "missing_columns"}, rows : {0}]
    \cup [status : {"ok"}, rows : {9, 12}]

PriorDisks ==
    {d \in [Paths -> {NoFile, EarlierCatalog, EarlierBilling, EarlierOutput}] :
        /\ \A dir \in Dirs :
              /\ d[<<dir, "pricebook_clean.xlsx">>] \in {NoFile, EarlierCatalog}
              /\ d[<<dir, "sap_clean.xlsx">>] \in {NoFile, EarlierBilling}
        /\ d[OUTPUT_FILE] \in {NoFile, EarlierOutput}
        /\ d[RUN_LOG] = NoFile}

EXPECTED_MIN_ROWS == 7000

Raise(d, c)  == [disk |-> d, console |-> c, raised |-> TRUE]
Return(d, c) == [disk |-> d, console |-> c, raised |-> FALSE]

\* pricebook_cleaner.run(PRICEBOOK_FILE)
pricebook_cleaner_run(d, c) ==
    LET book == args.pricebook
        output_path == <<args.pricebook_dir, "pricebook_clean.xlsx">>
    IN  IF book.status = "missing"
        THEN Raise(d, c \cup {"ERROR File not found: pricebook"})
        ELSE IF args.readonly = args.pricebook_dir
        THEN Raise(d, c \cup {"ERROR Cannot write to output directory"})
        ELSE IF book.status = "unreadable"
        THEN Return(d, c \cup {"ERROR Could not open pricebook"})
        ELSE IF book.numeric + book.custom = 0
        THEN Return(d, c \cup {"ERROR No data extracted from pricebook."})
        ELSE Return([d EXCEPT ![output_path] =
                        File(book.numeric + book.custom, book.numeric, "this", TRUE)],
                    c \cup (IF book.numeric < EXPECTED_MIN_ROWS
                            THEN {"WARN Only few price rows extracted"} ELSE {}))

\* sap_cleaner.run(SAP_FILE)
sap_cleaner_run(d, c) ==
    LET export == args.sap
        output_path == <<args.sap_dir, "sap_clean.xlsx">>
    IN  IF export.status = "missing"
        THEN Raise(d, c \cup {"ERROR File not found: SAP export"})
        ELSE IF args.readonly = args.sap_dir
        THEN Raise(d, c \cup {"ERROR Cannot write to output directory"})
        ELSE IF export.status = "unreadable"
        THEN Return(d, c \cup {"ERROR Could not open SAP file"})
        ELSE IF export.status = "no_header"
        THEN Return(d, c \cup {"ERROR Could not find header row in SAP export."})
        ELSE IF export.status = "missing_columns"
        THEN Return(d, c \cup {"ERROR Could not find required column(s)"})
        ELSE Return([d EXCEPT ![output_path] = File(export.rows, 0, "this", TRUE)],
                    c \cup (IF export.rows < 10
                            THEN {"WARN Only few clean rows"} ELSE {}))

\* shutil.copy2(src, dst) after a cleaner that came back, when src != dst
copy2(src, dst, r) ==
    IF r.raised \/ src = dst THEN r
    ELSE IF ~r.disk[src].exists THEN Raise(r.disk, r.console)
    ELSE IF args.readonly = dst[1] THEN Raise(r.disk, r.console)
    ELSE Return([r.disk EXCEPT ![dst] = r.disk[src]], r.console)

run_pricebook(d, c) ==
    copy2(<<args.pricebook_dir, "pricebook_clean.xlsx">>, PRICEBOOK_CLEAN,
          pricebook_cleaner_run(d, c))

run_sap(d, c) ==
    copy2(<<args.sap_dir, "sap_clean.xlsx">>, SAP_CLEAN, sap_cleaner_run(d, c))

\* validation.validate_pricebook_clean(PRICEBOOK_CLEAN)
validate_pricebook_clean(d, c) ==
    LET f == d[PRICEBOOK_CLEAN]
    IN  IF ~f.exists
        THEN Raise(d, c \cup {"ERROR File not found: pricebook_clean.xlsx"})
        ELSE IF f.rows < 1000
        THEN Raise(d, c \cup {"ERROR pricebook_clean has too few rows"})
        ELSE Return(d, c \cup (IF f.numeric < 5000
                               THEN {"WARN Only few numeric price rows"} ELSE {}))

\* validation.validate_sap_clean(SAP_CLEAN)
validate_sap_clean(d, c) ==
    LET f == d[SAP_CLEAN]
    IN  IF ~f.exists
        THEN Raise(d, c \cup {"ERROR File not found: sap_clean.xlsx"})
        ELSE IF f.rows < 10
        THEN Raise(d, c \cup {"ERROR sap_clean has too few rows"})
        ELSE Return(d, c)

\* the stage handoff validation at the head of audit_engine.run
handoff_validation(d, c) ==
    IF args.readonly = out_dir
    THEN Raise(d, c \cup {"ERROR Cannot write to output directory"})
    ELSE LET p == validate_pricebook_clean(d, c)
         IN  IF p.raised THEN p ELSE validate_sap_clean(p.disk, p.console)

\* validation.write_run_log: one line appended to run_log.txt
write_run_log(d) ==
    [d EXCEPT ![RUN_LOG] = File(d[RUN_LOG].rows + 1, 0, "this", FALSE)]

PipelineInit ==
    /\ args \in [pricebook : PricebookInputs, sap : SapInputs,
                 pricebook_dir : Dirs, sap_dir : Dirs,
                 readonly : Dirs \cup {"nowhere"}]
    /\ disk \in PriorDisks
    /\ console = {}
    /\ pc = "stage1"
    /\ ret = <<>>
    /\ pb = <<>> /\ sap = <<>> /\ i = 1 /\ results = <<>> /\ no_match_samples = <<>>

\* run_stage(1, ..., run_pricebook) and the sys.exit(1) that follows a failure
Stage1 ==
    /\ pc = "stage1"
    /\ LET r == run_pricebook(disk, console)
       IN  /\ disk' = r.disk
           /\ console' = r.console
           /\ pc' = IF r.raised THEN "exit" ELSE "stage2"
    /\ UNCHANGED <<pb, sap, i, results, no_match_samples, args, ret>>

\* run_stage(2, ..., run_sap)
Stage2 ==
    /\ pc = "stage2"
    /\ LET r == run_sap(disk, console)
       IN  /\ disk' = r.disk
           /\ console' = r.console
           /\ pc' = IF r.raised THEN "exit" ELSE "stage3"
    /\ UNCHANGED <<pb, sap, i, results, no_match_samples, args, ret>>

\* run_stage(3, ..., run_audit): audit_engine.run up to the reading of its inputs
AuditHandoff ==
    /\ pc = "stage3"
    /\ LET r == handoff_validation(disk, console)
       IN  /\ disk' = r.disk
           /\ console' = r.console
           /\ pc' = IF r.raised THEN "exit" ELSE "classify"
    /\ UNCHANGED <<pb, sap, i, results, no_match_samples, args, ret>>

\* the loop over the billing lines and validate_audit_result, which passes
\* because the loop yields one flagged result per line
AuditRows ==
    /\ pc = "classify"
    /\ pc' = "log"
    /\ UNCHANGED <<pb, sap, i, results, no_match_samples, args, ret, disk, console>>

WriteRunLog ==
    /\ pc = "log"
    /\ disk' = write_run_log(disk)
    /\ pc' = "write"
    /\ UNCHANGED <<pb, sap, i, results, no_match_samples, args, ret, console>>

\* the pd.ExcelWriter block: the four sheets are written, or the write fails
WriteOutput ==
    /\ pc = "write"
    /\ \E ok \in BOOLEAN :
          IF ok
          THEN /\ disk' = [disk EXCEPT ![OUTPUT_FILE] =
                               File(disk[SAP_CLEAN].rows, 0, "this", FALSE)]
               /\ pc' = "style"
          ELSE /\ disk' = disk
               /\ pc' = "exit"
    /\ UNCHANGED <<pb, sap, i, results, no_match_samples, args, ret, console>>

\* load_workbook, the styling of the sheets and wb.save, or a failure there
StyleOutput ==
    /\ pc = "style"
    /\ \E ok \in BOOLEAN :
          IF ok
          THEN /\ disk' = [disk EXCEPT ![OUTPUT_FILE].styled = TRUE]
               /\ pc' = "done"
          ELSE /\ disk' = disk
               /\ pc' = "exit"
    /\ UNCHANGED <<pb, sap, i, results, no_match_samples, args, ret, console>>

PipelineNext ==
    \/ Stage1
    \/ Stage2
    \/ AuditHandoff
    \/ AuditRows
    \/ WriteRunLog
    \/ WriteOutput
    \/ StyleOutput

PipelineSpec == PipelineInit /\ [][PipelineNext]_vars

FatalErrors ==
    {"ERROR Could not open pricebook", "ERROR No data extracted from pricebook.",
     "ERROR Could not open SAP file", "ERROR Could not find header row in SAP export.",
     "ERROR Could not find required column(s)"}

AuditStagePcs == {"classify", "log", "write", "style", "done"}

WrittenThisRun(path) == disk[path].exists /\ disk[path].run = "this"

\* C12: once stage 1 or stage 2 has hit a fatal condition, the audit stage
\* never runs and the audit output file is never written, whatever files an
\* earlier run left in the working directories.
C12_FatalHalts ==
    (pc # "stage1" /\ console \cap FatalErrors # {})
        => /\ pc \notin AuditStagePcs
           /\ ~WrittenThisRun(OUTPUT_FILE)

\* the same, for the runs that start with no intermediate file on disk
C12_FatalHaltsOnCleanDirectory ==
    (/\ console \cap FatalErrors # {}
     /\ \A dir \in Dirs : \A n \in {"pricebook_clean.xlsx", "sap_clean.xlsx"} :
           disk[<<dir, n>>].run # "earlier")
        => /\ pc \notin AuditStagePcs
           /\ ~WrittenThisRun(OUTPUT_FILE)
LowCatalog ==
    /\ console \cap FatalErrors = {}
    /\ WrittenThisRun(PRICEBOOK_CLEAN)
    /\ disk[PRICEBOOK_CLEAN].numeric < EXPECTED_MIN_ROWS

\* C13: in a run with no fatal condition, a catalog built by stage 1 with
\* fewer price rows than the expected baseline draws a warning and is never
\* the reason the run aborts: no too-few-rows error is raised on it.
C13_LowCountAdvisory ==
    LowCatalog
        => /\ "WARN Only few price rows extracted" \in console
           /\ "ERROR pricebook_clean has too few rows" \notin console

\* C19: a run that met no fatal condition and has ended has appended its
\* line to run_log.txt only if audit_engine.run wrote and saved the audit
\* output workbook.
C19_RunLogAfterSave ==
    (/\ pc \in {"exit", "done"}
     /\ console \cap FatalErrors = {}
     /\ WrittenThisRun(RUN_LOG))
        => /\ WrittenThisRun(OUTPUT_FILE)
           /\ disk[OUTPUT_FILE].styled
(***************************************************************************)
(* clean_number of sap_cleaner.py and of pricebook_cleaner.py.  A cell     *)
(* text is a sequence of characters; a float is the exact decimal          *)
(* m / 10^e, kept normalised, which is what float() yields for these short *)
(* texts up to the equality of two results.                                *)
(***************************************************************************)
MaxLen == 4        \* length of the cell texts enumerated in full

Digits == {"0", "1", "2", "3", "4", "5", "6", "7", "8", "9"}

\* the characters of the enumerated texts; 'R' is the rand prefix
Chars == {"0", "1", "5", ",", ".", "(", ")", "-", " ", "$", "R"}

\* pd.isna(val): a cell with nothing in it
MissingCell == <<"<NA>">>

NoNumber == [tag |-> "None", m |-> 0, e |-> 0]

RECURSIVE Normalised(_, _)
Normalised(m, e) ==
    IF e > 0 /\ m % 10 = 0 THEN Normalised(m \div 10, e - 1)
    ELSE [tag |-> "Num", m |-> m, e |-> e]

Decimal(m, e) == Normalised(m, e)

neg(x) == IF x.tag = "Num" THEN [x EXCEPT !.m = -x.m] ELSE x

DigitValue(c) ==
    CASE c = "0" -> 0 [] c = "1" -> 1 [] c = "2" -> 2 [] c = "3" -> 3 [] c = "4" -> 4
      [] c = "5" -> 5 [] c = "6" -> 6 [] c = "7" -> 7 [] c = "8" -> 8 [] c = "9" -> 9

\* str.replace(ch, '')
without(s, ch) == SelectSeq(s, LAMBDA c : c # ch)

\* str.replace(from, to) for single characters
replace(s, from, to) == [k \in 1..Len(s) |-> IF s[k] = from THEN to ELSE s[k]]

RECURSIVE lstrip(_)
lstrip(s) == IF s # <<>> /\ Head(s) = " " THEN lstrip(Tail(s)) ELSE s

RECURSIVE rstrip(_)
rstrip(s) ==
    IF s # <<>> /\ s[Len(s)] = " " THEN rstrip(SubSeq(s, 1, Len(s) - 1)) ELSE s

strip(s) == rstrip(lstrip(s))

\* str.rfind(ch): the last position of ch counted from 0, or -1
rfind(s, ch) ==
    LET at == {k \in 1..Len(s) : s[k] = ch}
    IN  IF at = {} THEN -1 ELSE (CHOOSE k \in at : \A j \in at : j <= k) - 1

RECURSIVE DigitsValue(_)
DigitsValue(s) ==
    IF s = <<>> THEN 0
    ELSE 10 * DigitsValue(SubSeq(s, 1, Len(s) - 1)) + DigitValue(s[Len(s)])

\* float(text): an optional sign, digits with at most one '.', one digit at
\* least; anything else is the ValueError that clean_number turns into None
float(s) ==
    LET signed == s # <<>> /\ Head(s) \in {"-", "+"}
        body   == IF signed THEN Tail(s) ELSE s
        dot    == rfind(body, ".")
        digits == without(body, ".")
        e      == IF dot = -1 THEN 0 ELSE Len(body) - (dot + 1)
        m      == DigitsValue(digits)
    IN  IF /\ digits # <<>>
           /\ \A k \in 1..Len(digits) : digits[k] \in Digits
           /\ Len(body) - Len(digits) <= 1
        THEN Decimal(IF signed /\ Head(s) = "-" THEN -m ELSE m, e)
        ELSE NoNumber

\* the currency symbols removed, the text stripped, a rand prefix dropped
unsigned_text(s) ==
    LET bare == strip(without(s, "$"))
    IN  IF Len(bare) > 1 /\ bare[1] = "R" /\ bare[2] \in Digits THEN Tail(bare) ELSE bare

\* lines 112-123 of sap_cleaner.clean_number, the convention being settled
converted(cleaned, european_format, is_negative) ==
    LET separated == IF european_format
                     THEN replace(without(cleaned, "."), ",", ".")
                     ELSE without(cleaned, ",")
        text == strip(without(separated, " "))
    IN  IF text = <<>> \/ text = <<"-">> THEN NoNumber
        ELSE IF is_negative THEN neg(float(text)) ELSE float(text)

\* sap_cleaner.clean_number with the convention of the caller and no other
clean_number_as_told(val, european_format) ==
    IF val = MissingCell THEN NoNumber
    ELSE LET stripped == strip(val)
             is_negative == /\ stripped # <<>>
                            /\ Head(stripped) = "("
                            /\ stripped[Len(stripped)] = ")"
             inner == IF is_negative THEN SubSeq(stripped, 2, Len(stripped) - 1)
                      ELSE stripped
         IN  converted(unsigned_text(inner), european_format, is_negative)

\* sap_cleaner.clean_number with '.' kept when the text is European
clean_number_keeps_periods(val, european_format) ==
    IF val = MissingCell THEN NoNumber
    ELSE LET stripped == strip(val)
             is_negative == /\ stripped # <<>>
                            /\ Head(stripped) = "("
                            /\ stripped[Len(stripped)] = ")"
             inner == IF is_negative THEN SubSeq(stripped, 2, Len(stripped) - 1)
                      ELSE stripped
             cleaned == unsigned_text(inner)
             comma_pos == rfind(cleaned, ",")
             period_pos == rfind(cleaned, ".")
             european == european_format \/ (comma_pos > period_pos /\ comma_pos > 0)
         IN  IF european
             THEN converted(replace(cleaned, ",", "."), FALSE, is_negative)
             ELSE converted(cleaned, FALSE, is_negative)

\* sap_cleaner.clean_number(val, european_format)
sap_clean_number(val, european_format) ==
    IF val = MissingCell THEN NoNumber
    ELSE LET stripped == strip(val)
             is_negative == /\ stripped # <<>>
                            /\ Head(stripped) = "("
                            /\ stripped[Len(stripped)] = ")"
             inner == IF is_negative THEN SubSeq(stripped, 2, Len(stripped) - 1)
                      ELSE stripped
             cleaned == unsigned_text(inner)
             comma_pos == rfind(cleaned, ",")
             period_pos == rfind(cleaned, ".")
             european == european_format \/ (comma_pos > period_pos /\ comma_pos > 0)
         IN  converted(cleaned, european, is_negative)

\* pricebook_cleaner.clean_number with the sign of the result kept
pricebook_clean_number_keeps_sign(val) ==
    IF val = MissingCell THEN NoNumber
    ELSE LET cleaned == strip(without(without(unsigned_text(val), ","), " "))
         IN  IF cleaned = <<>> \/ cleaned = <<"-">> THEN NoNumber ELSE float(cleaned)

\* pricebook_cleaner.clean_number(val)
pricebook_clean_number(val) ==
    IF val = MissingCell THEN NoNumber
    ELSE LET cleaned == strip(without(without(unsigned_text(val), ","), " "))
             result == float(cleaned)
         IN  IF cleaned = <<>> \/ cleaned = <<"-">> THEN NoNumber
             ELSE IF result.tag = "Num" /\ result.m > 0 THEN result ELSE NoNumber

\* df[col].dropna().head(20)
head(col, n) ==
    LET kept == SelectSeq(col, LAMBDA v : v # MissingCell)
    IN  SubSeq(kept, 1, IF Len(kept) < n THEN Len(kept) ELSE n)

RECURSIVE votes(_, _, _)
votes(samples, european_votes, standard_votes) ==
    IF samples = <<>> THEN european_votes > standard_votes
    ELSE LET comma_pos  == rfind(Head(samples), ",")
             period_pos == rfind(Head(samples), ".")
         IN  IF comma_pos > period_pos /\ period_pos > 0
             THEN votes(Tail(samples), european_votes + 1, standard_votes)
             ELSE IF period_pos > comma_pos /\ comma_pos >= 0
             THEN votes(Tail(samples), european_votes, standard_votes + 1)
             ELSE votes(Tail(samples), european_votes, standard_votes)

\* sap_cleaner.detect_number_format(df, col)
detect_number_format(col) == votes(head(col, 20), 0, 0)
(***************************************************************************)
(* The two clean_number functions called directly                          *)
(***************************************************************************)
\* texts in the standard convention with thousands and decimal separators
StandardTexts ==
    LET FirstGroups == {<<"1">>, <<"1", "2">>, <<"9", "9", "9">>}
        Groups      == {<<"2", "3", "4">>, <<"0", "0", "0">>}
        Decimals    == {<<"5">>, <<"5", "6">>, <<"0", "0">>}
    IN  {f \o <<",">> \o g \o <<".">> \o d :
            f \in FirstGroups, g \in Groups, d \in Decimals}
        \cup {<<"1", ",">> \o g \o <<",">> \o h \o <<".">> \o d :
            g \in Groups, h \in Groups, d \in Decimals}

\* the same value written in the European convention
European(text) ==
    [k \in 1..Len(text) |->
        IF text[k] = "," THEN "." ELSE IF text[k] = "." THEN "," ELSE text[k]]

NamedTexts ==
    {<<"1", ".", "2", "3", "4", ",", "5", "6">>,            \* 1.234,56
     <<"1", ",", "2", "3", "4", ".", "5", "6">>,            \* 1,234.56
     <<"1", ",", "2", "3", "4">>,            \* 1,234
     <<"(", "1", "2", "3", "4", ".", "5", "6", ")">>,            \* (1234.56)
     <<"$", "1", ",", "2", "3", "4", ".", "5", "6">>,            \* $1,234.56
     <<"-", "1", "2", ".", "5", "0">>,            \* -12.50
     <<"0", ".", "0", "0">>,            \* 0.00
     <<"n", "/", "a">>}           \* n/a

CellTexts ==
    SeqsUpTo(Chars, MaxLen) \cup StandardTexts \cup {European(t) : t \in StandardTexts}
        \cup NamedTexts \cup {MissingCell}

NumberInit ==
    /\ args \in [val : CellTexts, european_format : BOOLEAN]
    /\ ret = <<>>
    /\ disk = <<>> /\ console = {}
    /\ pc = "call"
    /\ pb = <<>> /\ sap = <<>> /\ i = 1 /\ results = <<>> /\ no_match_samples = <<>>

CallSapCleanNumber ==
    /\ pc = "call"
    /\ ret' = [fn |-> "sap_cleaner",
               value |-> sap_clean_number(args.val, args.european_format)]
    /\ pc' = "returned"
    /\ UNCHANGED <<pb, sap, i, results, no_match_samples, args, disk, console>>

CallPricebookCleanNumber ==
    /\ pc = "call"
    /\ ret' = [fn |-> "pricebook_cleaner", value |-> pricebook_clean_number(args.val)]
    /\ pc' = "returned"
    /\ UNCHANGED <<pb, sap, i, results, no_match_samples, args, disk, console>>

NumberNext ==
    \/ CallSapCleanNumber
    \/ CallPricebookCleanNumber

NumberSpec == NumberInit /\ [][NumberNext]_vars

(***************************************************************************)
(* A net value column through detect_number_format and clean_number        *)
(***************************************************************************)
MaxCol == 2        \* cells of the column

ColumnTexts ==
    {MissingCell,
     <<"1", ".", "2", "3", "4", ",", "5", "6">>,            \* 1.234,56
     <<"1", ",", "2", "3", "4", ".", "5", "6">>,            \* 1,234.56
     <<"1", ",", "2", "3", "4">>,            \* 1,234
     <<"1", "2", ".", "5", "0">>,            \* 12.50
     <<"1", "2", ",", "5", "0">>,            \* 12,50
     <<"2", "5", "0">>,            \* 250
     <<"(", "1", "2", "3", "4", ".", "5", "6", ")">>}            \* (1234.56)

ColumnInit ==
    /\ args \in [col : SeqsUpTo(ColumnTexts, MaxCol) \ {<<>>}]
    /\ ret = <<>>
    /\ disk = <<>> /\ console = {}
    /\ pc = "call"
    /\ pb = <<>> /\ sap = <<>> /\ i = 1 /\ results = <<>> /\ no_match_samples = <<>>

\* european_fmt = detect_number_format(df, col_map['net_value']) and
\* clean['net_value'] = df[...].apply(lambda v: clean_number(v, european_fmt))
CleanColumn ==
    /\ pc = "call"
    /\ LET european_fmt == detect_number_format(args.col)
       IN  ret' = [european_fmt |-> european_fmt,
                   net_value |-> [k \in 1..Len(args.col) |->
                                     sap_clean_number(args.col[k], european_fmt)]]
    /\ pc' = "returned"
    /\ UNCHANGED <<pb, sap, i, results, no_match_samples, args, disk, console>>

ColumnNext == CleanColumn

ColumnSpec == ColumnInit /\ [][ColumnNext]_vars

\* C14: a text in the standard convention with thousands and decimal
\* separators, cleaned with european_format = False, gives the number that its
\* European spelling gives when the European convention is forced, detected for
\* the column or detected for the cell; "1,234.56" and "1.234,56" give 1234.56.
C14_EuropeanRoundTrip ==
    (/\ pc = "returned" /\ ret.fn = "sap_cleaner"
     /\ ~args.european_format
     /\ args.val \in StandardTexts \cup {<<"1", ",", "2", "3", "4", ".", "5", "6">>})
        => LET e == European(args.val)
           IN  /\ ret.value.tag = "Num"
               /\ sap_clean_number(e, TRUE) = ret.value
               /\ sap_clean_number(e, detect_number_format(<<e>>)) = ret.value
               /\ sap_clean_number(e, FALSE) = ret.value
               /\ args.val = <<"1", ",", "2", "3", "4", ".", "5", "6">>
                     => /\ e = <<"1", ".", "2", "3", "4", ",", "5", "6">>
                        /\ ret.value = Decimal(123456, 2)

C14_Witness ==
    /\ pc = "returned" /\ ret.fn = "sap_cleaner"
    /\ ~args.european_format
    /\ args.val = <<"1", ",", "2", "3", "4", ".", "5", "6">>
    /\ detect_number_format(<<European(args.val)>>)
    /\ ret.value = Decimal(123456, 2)

\* C15: in a column that detect_number_format does not find European, every
\* cell is read with ',' as thousands separator and '.' as decimal separator,
\* the convention decided for the column; "1,234" gives 1234.
C15_StandardConvention ==
    (pc = "returned" /\ ~ret.european_fmt)
        => \A k \in 1..Len(args.col) :
              /\ ret.net_value[k] = clean_number_as_told(args.col[k], FALSE)
              /\ args.col[k] = <<"1", ",", "2", "3", "4">> => ret.net_value[k] = Decimal(1234, 0)

\* what does hold: the cell is read in the convention of its own text when
\* its last comma comes after its last period, and as told otherwise
C15_ConventionOfTheCell ==
    (pc = "returned" /\ ~ret.european_fmt)
        => \A k \in 1..Len(args.col) :
              LET text == args.col[k]
                  own  == rfind(text, ",") > rfind(text, ".")
              IN  ret.net_value[k] = clean_number_as_told(text, own)

IsAccounting(val) ==
    /\ Len(val) >= 2 /\ val[1] = "(" /\ val[Len(val)] = ")"
    /\ \A k \in 2..(Len(val) - 1) : val[k] \notin {"(", ")"}

\* C16: the catalog clean_number returns None or a number above zero; the
\* billing clean_number returns 0 for a zero text, a negative number for a
\* negative text (the number itself in the standard convention), and the
\* negation of x for "(x)"; "(1234.56)" gives -1234.56.
C16_CatalogPositiveBillingSigned ==
    pc = "returned"
        => /\ ret.fn = "pricebook_cleaner"
                 => \/ ret.value = NoNumber
                    \/ ret.value.tag = "Num" /\ ret.value.m > 0
           /\ ret.fn = "sap_cleaner"
                 => LET plain == IF args.val = MissingCell THEN NoNumber
                                 ELSE float(args.val)
                    IN  /\ (plain.tag = "Num" /\ plain.m = 0)
                              => ret.value = Decimal(0, 0)
                        /\ (plain.tag = "Num" /\ plain.m < 0)
                              => /\ ret.value.tag = "Num" /\ ret.value.m < 0
                                 /\ ~args.european_format => ret.value = plain
                        /\ (args.val # MissingCell /\ IsAccounting(args.val))
                              => ret.value =
                                    neg(sap_clean_number(
                                            SubSeq(args.val, 2, Len(args.val) - 1),
                                            args.european_format))
                        /\ (args.val = <<"(", "1", "2", "3", "4", ".", "5", "6", ")">> /\ ~args.european_format)
                              => ret.value = Decimal(-123456, 2)

C16_Witness ==
    /\ pc = "returned" /\ ret.fn = "sap_cleaner"
    /\ args.val = <<"(", "1", "2", "3", "4", ".", "5", "6", ")">>
    /\ ~args.european_format
    /\ ret.value = Decimal(-123456, 2)
\* C18: classify returns PRICE_UNCHANGED only when the 2025 price and the
\* 2026 price it was given are the same value.
C18_UnchangedMeansEqualPrices ==
    (pc = "returned" /\ ret = "PRICE_UNCHANGED")
        => args.price_2025 = args.price_2026

\* what does hold: both prices are numbers that the net value matches
C18_UnchangedMeansBothMatch ==
    (pc = "returned" /\ ret = "PRICE_UNCHANGED")
        => /\ within_tolerance(args.net_value, args.price_2025)
           /\ within_tolerance(args.net_value, args.price_2026)
(***************************************************************************)
(* process_tab of pricebook_cleaner.py: the loop over the data rows of a   *)
(* tab whose header, part number column, band columns and price columns    *)
(* have been found, and the deduplication that ends it.                    *)
(***************************************************************************)
MaxTabRows == 2    \* data rows of the tab

LowerCase == <<"a", "b", "c", "d", "e", "f", "g", "h", "i", "j", "k", "l", "m", "n", "o", "p", "q", "r", "s", "t", "u", "v", "w", "x", "y", "z">>
UpperCase == <<"A", "B", "C", "D", "E", "F", "G", "H", "I", "J", "K", "L", "M", "N", "O", "P", "Q", "R", "S", "T", "U", "V", "W", "X", "Y", "Z">>

upper(s) ==
    [k \in 1..Len(s) |->
        IF \E n \in 1..Len(LowerCase) : LowerCase[n] = s[k]
        THEN UpperCase[CHOOSE n \in 1..Len(LowerCase) : LowerCase[n] = s[k]]
        ELSE s[k]]

startswith(s, prefix) ==
    Len(s) >= Len(prefix) /\ SubSeq(s, 1, Len(prefix)) = prefix

\* sub in s
contains(s, sub) ==
    \E k \in 1..(Len(s) - Len(sub) + 1) : SubSeq(s, k, k + Len(sub) - 1) = sub

\* pricebook_cleaner.is_custom_value(val)
is_custom_value(val) ==
    IF val = MissingCell THEN FALSE
    ELSE LET cleaned == upper(strip(val))
         IN  \/ cleaned \in {<<"C", "U", "S", "T", "O", "M">>,
                             <<"P", "R", "I", "C", "I", "N", "G", " ", "B", "A", "S", "E", "D", " ", "O", "N", " ", "C", "O", "N", "T", "R", "A", "C", "T">>,
                             <<"T", "B", "D">>, <<"N", "/", "A">>, <<"-">>}
             \/ startswith(cleaned, <<"P", "R", "I", "C", "I", "N", "G", " ", "B", "A", "S", "E", "D">>)
             \/ startswith(cleaned, <<"C", "O", "N", "T", "R", "A", "C", "T">>)

\* the price columns that detect_currency and detect_year found in the header
price_cols ==
    <<[currency |-> "USD", year |-> "2025"],
      [currency |-> "USD", year |-> "2026"],
      [currency |-> "CAD", year |-> "2026"]>>

sheet_name == "Tab1"

NaNNumber == [tag |-> "NaN", m |-> 0, e |-> 0]

\* str(row.get(part_col, '')).strip() is blank, or looks like a header line
skipped_material(cell) ==
    LET material == IF cell = MissingCell THEN <<"n", "a", "n">> ELSE strip(cell)
    IN  \/ material = <<>>
        \/ upper(material) \in {<<"N", "A", "N">>, <<"N", "O", "N", "E">>}
        \/ \E kw \in {<<"I", "D", "E", "X", "X">>, <<"P", "A", "R", "T">>,
                      <<"M", "A", "T", "E", "R", "I", "A", "L">>,
                      <<"P", "R", "O", "D", "U", "C", "T">>} :
              contains(upper(material), kw)

\* max_band read from the maximum column and nowhere else
max_band_of_max_column(row) == pricebook_clean_number(row.max)

\* max_band, from the maximum column or else from the minimum column
max_band_of(row) ==
    LET max_band == pricebook_clean_number(row.max)
    IN  IF max_band = NoNumber THEN pricebook_clean_number(row.min) ELSE max_band

row_has_custom(row) == \E c \in 1..Len(price_cols) : is_custom_value(row.cells[c])

\* row_has_custom computed with all() in place of any()
row_all_custom(row) == \A c \in 1..Len(price_cols) : is_custom_value(row.cells[c])

row_has_numeric(row) ==
    \E c \in 1..Len(price_cols) : pricebook_clean_number(row.cells[c]) # NoNumber

\* prices[currency].get(year)
year_price(row, currency, year) ==
    LET at == {c \in 1..Len(price_cols) :
                  /\ price_cols[c].currency = currency /\ price_cols[c].year = year
                  /\ pricebook_clean_number(row.cells[c]) # NoNumber}
    IN  IF at = {} THEN NoNumber
        ELSE pricebook_clean_number(row.cells[CHOOSE c \in at : \A k \in at : k <= c])

\* the price columns that open a new key of the dict `prices`, in order
first_priced_cols(row) ==
    SelectSeq([c \in 1..Len(price_cols) |-> c],
              LAMBDA c :
                  /\ pricebook_clean_number(row.cells[c]) # NoNumber
                  /\ \A k \in 1..(c - 1) :
                        price_cols[k].currency = price_cols[c].currency
                            => pricebook_clean_number(row.cells[k]) = NoNumber)

priced_entries(row) ==
    LET cols == first_priced_cols(row)
    IN  [n \in 1..Len(cols) |->
            [material   |-> strip(row.material),
             max_band   |-> max_band_of(row),
             currency   |-> price_cols[cols[n]].currency,
             price_2025 |-> year_price(row, price_cols[cols[n]].currency, "2025"),
             price_2026 |-> year_price(row, price_cols[cols[n]].currency, "2026"),
             source_tab |-> sheet_name,
             is_custom  |-> FALSE]]

\* custom entries that keep the band of their row
custom_entries_with_band(row) ==
    [c \in 1..Len(price_cols) |->
        [material   |-> strip(row.material),
         max_band   |-> max_band_of(row),
         currency   |-> price_cols[c].currency,
         price_2025 |-> NoNumber,
         price_2026 |-> NoNumber,
         source_tab |-> sheet_name,
         is_custom  |-> TRUE]]

custom_entries(row) ==
    [c \in 1..Len(price_cols) |->
        [material   |-> strip(row.material),
         max_band   |-> NoNumber,
         currency   |-> price_cols[c].currency,
         price_2025 |-> NoNumber,
         price_2026 |-> NoNumber,
         source_tab |-> sheet_name,
         is_custom  |-> TRUE]]

\* DataFrame.drop_duplicates(subset=['material', 'currency']): the first stays
RECURSIVE drop_duplicates(_)
drop_duplicates(rows) ==
    IF rows = <<>> THEN <<>>
    ELSE LET last == rows[Len(rows)]
             init == SubSeq(rows, 1, Len(rows) - 1)
         IN  IF \E k \in 1..Len(init) :
                    /\ init[k].material = last.material
                    /\ init[k].currency = last.currency
             THEN drop_duplicates(init)
             ELSE Append(drop_duplicates(init), last)

\* pd.DataFrame(rows) ... to_dict('records'): in a column that holds a
\* number, None comes back as NaN
records(rows) ==
    LET has_number(col) == \E k \in 1..Len(rows) : rows[k][col].tag = "Num"
        back(col, x) == IF x = NoNumber /\ has_number(col) THEN NaNNumber ELSE x
    IN  [k \in 1..Len(rows) |->
            [rows[k] EXCEPT !.max_band   = back("max_band", @),
                            !.price_2025 = back("price_2025", @),
                            !.price_2026 = back("price_2026", @)]]

deduplicated(rows) ==
    LET frame   == records(rows)
        numeric == SelectSeq(frame, LAMBDA r : ~r.is_custom)
        custom  == drop_duplicates(SelectSeq(frame, LAMBDA r : r.is_custom))
    IN  numeric \o custom

PriceCells == {MissingCell, <<"9", "5", ".", "5", "0">>, <<"T", "B", "D">>}

TabRowsInput ==
    [material : {<<"A", "1">>}, max : {<<"1", "0">>}, min : {MissingCell},
     cells : [1..Len(price_cols) -> PriceCells]]
    \cup
    {[material |-> <<"B", "2">>, max |-> MissingCell, min |-> <<"5">>,
      cells |-> <<<<"9", "5", ".", "5", "0">>, <<"$", "9", "9">>, MissingCell>>],
     [material |-> <<"B", "2">>, max |-> MissingCell, min |-> MissingCell,
      cells |-> <<<<"C", "o", "n", "t", "r", "a", "c", "t">>, <<"0">>, <<"c", "a", "l", "l">>>>],
     [material |-> <<"B", "2">>, max |-> <<"1", "0">>, min |-> MissingCell,
      cells |-> <<<<"0">>, <<"-", "5">>, <<"c", "a", "l", "l">>>>],
     [material |-> <<"B", "2">>, max |-> <<"1", "0">>, min |-> <<"5">>,
      cells |-> <<<<"9", "5", ".", "5", "0">>, MissingCell, MissingCell>>],
     [material |-> <<"B", "2">>, max |-> <<"-">>, min |-> <<"5">>,
      cells |-> <<<<"9", "5", ".", "5", "0">>, MissingCell, MissingCell>>],
     [material |-> <<"P", "a", "r", "t", " ", "N", "o">>, max |-> MissingCell, min |-> MissingCell,
      cells |-> <<<<"9", "5", ".", "5", "0">>, <<"9", "5", ".", "5", "0">>, <<"9", "5", ".", "5", "0">>>>],
     [material |-> MissingCell, max |-> MissingCell, min |-> MissingCell,
      cells |-> <<<<"9", "5", ".", "5", "0">>, MissingCell, <<"T", "B", "D">>>>]}

TabInit ==
    /\ args \in [tab : SeqsUpTo(TabRowsInput, MaxTabRows) \ {<<>>}]
    /\ i = 1
    /\ results = <<>>
    /\ ret = [custom_materials |-> {}]
    /\ pc = "rows"
    /\ disk = <<>> /\ console = {}
    /\ pb = <<>> /\ sap = <<>> /\ no_match_samples = <<>>

\* continue: no part number, or a header line that leaked through
TabSkipRow ==
    /\ pc = "rows" /\ i <= Len(args.tab)
    /\ skipped_material(args.tab[i].material)
    /\ i' = i + 1
    /\ UNCHANGED <<pb, sap, results, no_match_samples, pc, args, ret, disk, console>>

\* if row_has_numeric: one entry per currency that has a price
TabPricedRow ==
    /\ pc = "rows" /\ i <= Len(args.tab)
    /\ ~skipped_material(args.tab[i].material)
    /\ row_has_numeric(args.tab[i])
    /\ results' = results \o priced_entries(args.tab[i])
    /\ i' = i + 1
    /\ UNCHANGED <<pb, sap, no_match_samples, pc, args, ret, disk, console>>

\* the custom branch emitting entries that keep the band
TabCustomRow_with_band ==
    /\ pc = "rows" /\ i <= Len(args.tab)
    /\ ~skipped_material(args.tab[i].material)
    /\ ~row_has_numeric(args.tab[i])
    /\ row_has_custom(args.tab[i])
    /\ results' = results \o custom_entries_with_band(args.tab[i])
    /\ ret' = [ret EXCEPT !.custom_materials = @ \cup {strip(args.tab[i].material)}]
    /\ i' = i + 1
    /\ UNCHANGED <<pb, sap, no_match_samples, pc, args, disk, console>>

\* elif row_has_custom: one custom entry per price column
TabCustomRow ==
    /\ pc = "rows" /\ i <= Len(args.tab)
    /\ ~skipped_material(args.tab[i].material)
    /\ ~row_has_numeric(args.tab[i])
    /\ row_has_custom(args.tab[i])
    /\ results' = results \o custom_entries(args.tab[i])
    /\ ret' = [ret EXCEPT !.custom_materials = @ \cup {strip(args.tab[i].material)}]
    /\ i' = i + 1
    /\ UNCHANGED <<pb, sap, no_match_samples, pc, args, disk, console>>

\* neither a price nor a custom text on the row: nothing is emitted
TabEmptyRow ==
    /\ pc = "rows" /\ i <= Len(args.tab)
    /\ ~skipped_material(args.tab[i].material)
    /\ ~row_has_numeric(args.tab[i])
    /\ ~row_has_custom(args.tab[i])
    /\ i' = i + 1
    /\ UNCHANGED <<pb, sap, results, no_match_samples, pc, args, ret, disk, console>>

\* after the loop: the custom rows deduplicated, and the return
TabReturn ==
    /\ pc = "rows" /\ i > Len(args.tab)
    /\ ret' = IF results = <<>>
              THEN [rows |-> <<>>,
                    skip_reason |-> "tab parsed but zero data rows extracted",
                    custom_materials |-> ret.custom_materials]
              ELSE [rows |-> deduplicated(results),
                    skip_reason |-> "None",
                    custom_materials |-> ret.custom_materials]
    /\ pc' = "returned"
    /\ UNCHANGED <<pb, sap, i, results, no_match_samples, args, disk, console>>

TabNext ==
    \/ TabSkipRow
    \/ TabPricedRow
    \/ TabCustomRow
    \/ TabEmptyRow
    \/ TabReturn

TabSpec == TabInit /\ [][TabNext]_vars

IsNull(x) == x.tag \in {"None", "NaN"}

CatalogEntryInvariant(rows) ==
    \A k \in 1..Len(rows) :
        /\ rows[k].is_custom
              => IsNull(rows[k].price_2025) /\ IsNull(rows[k].price_2026)
                    /\ IsNull(rows[k].max_band)
        /\ ~rows[k].is_custom
              => ~IsNull(rows[k].price_2025) \/ ~IsNull(rows[k].price_2026)

\* C17: every entry that process_tab emits with is_custom true has no price
\* and no band, and every entry with is_custom false has a price for one year
\* at least, in the list built by the loop and in the list returned after the
\* custom entries are deduplicated.
C17_CatalogEntryInvariant ==
    /\ CatalogEntryInvariant(results)
    /\ pc = "returned" => CatalogEntryInvariant(ret.rows)

C17_Witness ==
    /\ pc = "returned"
    /\ Len(ret.rows) < Len(results)
    /\ \E k \in 1..Len(ret.rows) : ret.rows[k].is_custom
    /\ \E k \in 1..Len(ret.rows) :
          ~ret.rows[k].is_custom /\ ret.rows[k].max_band.tag = "Num"
                /\ ret.rows[k].price_2025.tag = "NaN"

Added == SubSeq(results', Len(results) + 1, Len(results'))

\* C20: a data row is recorded as custom exactly when each of its price cells
\* is a custom text and none is a number; a row with a number in a price cell
\* gives priced entries only; a row that mixes custom texts with blank or
\* unreadable cells is not recorded as custom.
C20_CustomRowRule ==
    [][(pc = "rows" /\ i' = i + 1 /\ ~skipped_material(args.tab[i].material))
          => LET row == args.tab[i]
                 recorded == \E k \in 1..Len(Added) : Added[k].is_custom
             IN  /\ recorded <=> (row_all_custom(row) /\ ~row_has_numeric(row))
                 /\ row_has_numeric(row)
                       => /\ Added # <<>>
                          /\ \A k \in 1..Len(Added) : ~Added[k].is_custom
                 /\ (row_has_custom(row) /\ ~row_all_custom(row)
                        /\ ~row_has_numeric(row))
                       => ~recorded]_vars

\* what does hold: one custom text is enough when no price cell is a number
C20_AnyCustomCell ==
    [][(pc = "rows" /\ i' = i + 1 /\ ~skipped_material(args.tab[i].material))
          => LET row == args.tab[i]
                 recorded == \E k \in 1..Len(Added) : Added[k].is_custom
             IN  /\ recorded <=> (row_has_custom(row) /\ ~row_has_numeric(row))
                 /\ recorded => strip(row.material) \in ret'.custom_materials
                 /\ ~recorded => ret'.custom_materials = ret.custom_materials
                 /\ row_has_numeric(row)
                       => /\ Added # <<>>
                          /\ \A k \in 1..Len(Added) : ~Added[k].is_custom]_vars
\* classify with the third nested test (lines 109-110) taken out
classify_without_recheck(net_value, price_2025, price_2026, quantity) ==
    IF net_value < 0 THEN "CREDIT"
    ELSE IF net_value = 0 THEN "BILLED_AT_ZERO"
    ELSE IF price_2025 = None /\ price_2026 = None THEN "NO_TIER_BAND_FOUND"
    ELSE
    LET match_2025 == price_2025 # None /\ within_tolerance(net_value, price_2025)
        match_2026 == price_2026 # None /\ within_tolerance(net_value, price_2026)
        scaled     == ~match_2025 /\ ~match_2026 /\ positive(quantity)
        qty_2026   == price_2026 # None
                      /\ within_tolerance(net_value, times(price_2026, quantity))
        qty_2025   == price_2025 # None
                      /\ within_tolerance(net_value, times(price_2025, quantity))
        m25        == IF scaled /\ qty_2025 THEN TRUE  ELSE match_2025
        m26        == IF scaled /\ qty_2025 THEN FALSE ELSE match_2026
    IN  IF scaled /\ qty_2026 THEN "CORRECT_2026"
        ELSE IF m25 /\ m26 THEN "PRICE_UNCHANGED"
        ELSE IF m26 THEN "CORRECT_2026"
        ELSE IF m25 THEN "OLD_PRICE_2025"
        ELSE "NO_MATCH"

\* C26: the second current-year quantity-scaled test of classify is dead:
\* on every input classify returns what it returns with that test removed.
C26_RecheckIsDead ==
    pc = "returned"
        => ret = classify_without_recheck(args.net_value, args.price_2025,
                                          args.price_2026, args.quantity)

\* a call in which the condition of the removed test is true: both prices
\* given, 540.00 billed for 5 units at 108.00
C26_Witness ==
    /\ pc = "returned"
    /\ args.net_value = 540000 /\ args.quantity = Num(5)
    /\ args.price_2025 = Num(100000) /\ args.price_2026 = Num(108000)
    /\ ret = "CORRECT_2026"
\* what the audit loop yields for one billing line, from the line and the
\* catalog alone
audit_line(row) ==
    LET pb_slice == pb_slice_of(row.material, row.currency)
        pb_mat   == pb_mat_of(row.material)
    IN  IF row.material \in custom_materials
        THEN result_of(row, None, None, None, None,
                 SelectSeq(custom_pb, LAMBDA r : r.material = row.material)[1].source_tab,
                 "CUSTOM_PRICING")
        ELSE IF pb_slice = <<>>
        THEN IF pb_mat = <<>>
             THEN result_of(row, None, None, None, None, NoTab, "NOT_IN_PRICEBOOK")
             ELSE result_of(row, None, None, None, None, pb_mat[1].source_tab,
                            "NO_PRICEBOOK_CURRENCY")
        ELSE IF row.quantity = 0
        THEN LET flag == classify(row.net_value, pb_slice[1].price_2025,
                                  pb_slice[1].price_2026, None)
             IN  result_of(row, None, pb_slice[1].price_2025, pb_slice[1].price_2026,
                     variance_vs_2026(row.net_value, pb_slice[1].price_2026),
                     pb_slice[1].source_tab,
                     IF flag = "NO_MATCH" THEN "ZERO_QTY_FLAT_PRICE" ELSE flag)
        ELSE LET tier == find_tier_price(row.quantity, pb_slice)
             IN  result_of(row, tier[1], tier[2], tier[3],
                     variance_vs_2026(row.net_value, tier[3]),
                     pb_slice[1].source_tab,
                     classify(row.net_value, tier[2], tier[3], Num(row.quantity)))

\* C25: the result of every billing line is a function of that line and of
\* the catalog only: it does not depend on the lines before it, on its
\* position, or on the debug sample list; equal lines get equal results.
C25_RowIndependence ==
    /\ \A k \in 1..Len(results) : results[k] = audit_line(sap[k])
    /\ \A j, k \in 1..Len(results) : sap[j] = sap[k] => results[j] = results[k]

\* a finished audit of two different lines of one material, the first of
\* which left a debug sample behind or a lookup of its own
C25_Witness ==
    /\ pc = "validated" /\ Len(results) = 2
    /\ sap[1] # sap[2]
    /\ sap[1].material = sap[2].material
    /\ results[1].tier_max_band # results[2].tier_max_band
    /\ results[2].audit_flag = "CORRECT_2026"

\* C27: a quantity-0 line whose material has numeric entries in the billed
\* currency skips the band lookup: no band is reported and the prices are
\* those of the first entry of the (material, currency) group in catalog
\* order, however many banded or unbanded entries the group holds.
C27_ZeroQtySkipsBands ==
    \A k \in 1..Len(results) :
        LET row == sap[k]
            pb_slice == pb_slice_of(row.material, row.currency)
        IN  (/\ row.quantity = 0
             /\ row.material \notin custom_materials
             /\ pb_slice # <<>>)
                => /\ results[k].tier_max_band = None
                   /\ results[k].price_2025 = pb_slice[1].price_2025
                   /\ results[k].price_2026 = pb_slice[1].price_2026

\* a quantity-0 line audited against a group of two banded entries with
\* different prices
C27_Witness ==
    /\ pc = "validated"
    /\ \E k \in 1..Len(results) :
          LET pb_slice == pb_slice_of(sap[k].material, sap[k].currency)
          IN  /\ sap[k].quantity = 0
              /\ sap[k].material \notin custom_materials
              /\ Len(pb_slice) = 2
              /\ notna(pb_slice[1].max_band) /\ notna(pb_slice[2].max_band)
              /\ pb_slice[1].price_2026 # pb_slice[2].price_2026
              /\ results[k].tier_max_band = None
              /\ results[k].price_2026 = pb_slice[1].price_2026

\* every non-custom catalog entry carries a price for one year at least
CatalogPriced ==
    \A k \in 1..Len(numeric_pb) :
        notna(numeric_pb[k].price_2025) \/ notna(numeric_pb[k].price_2026)

IsNullCell(x) == x = None \/ x = NaN

WithinCent(x) == notna(x) /\ AbsDiff(x.v, 0) <= TOLERANCE

\* C29: a result flagged CORRECT_2026 or PRICE_UNCHANGED has a variance of
\* at most 0.01 in absolute value, and the variance is null exactly when the
\* resolved 2026 price is null.
C29_FlagVarianceAgree ==
    \A k \in 1..Len(results) :
        /\ results[k].audit_flag \in {"CORRECT_2026", "PRICE_UNCHANGED"}
              => WithinCent(results[k].variance_vs_2026)
        /\ IsNullCell(results[k].variance_vs_2026) <=> IsNullCell(results[k].price_2026)

\* C29 as the code has it: the variance is the net value less the unit 2026
\* price, so it is within 0.01 for PRICE_UNCHANGED and for a CORRECT_2026 that
\* matched the price itself; a CORRECT_2026 found by the quantity-scaled
\* test has the net value within tolerance of price times quantity instead.
C29_FlagVarianceAgreeUnlessScaled ==
    \A k \in 1..Len(results) :
        LET r == results[k]
        IN  /\ r.audit_flag = "PRICE_UNCHANGED" => WithinCent(r.variance_vs_2026)
            /\ r.audit_flag = "CORRECT_2026"
                  => \/ WithinCent(r.variance_vs_2026)
                     \/ /\ r.quantity > 0
                        /\ within_tolerance(r.net_value,
                               times(r.price_2026, Num(r.quantity)))
                        /\ r.variance_vs_2026
                              = Num(round2(r.net_value - r.price_2026.v))
            /\ IsNullCell(r.variance_vs_2026) <=> IsNullCell(r.price_2026)

\* a finished audit with a line matched on the unit price and a line matched
\* on price times quantity, 540.00 for 5 units at 108.00
C29_Witness ==
    /\ pc = "validated"
    /\ \E k \in 1..Len(results) :
          /\ results[k].audit_flag = "CORRECT_2026"
          /\ results[k].quantity = 5 /\ results[k].net_value = 540000
          /\ results[k].variance_vs_2026 = Num(432000)
    /\ \E k \in 1..Len(results) :
          /\ results[k].audit_flag = "CORRECT_2026"
          /\ results[k].quantity > 0
          /\ results[k].variance_vs_2026 = Num(0)
\* C22: in a tab that has a maximum-band column, the ceiling of every entry
\* a data row emits is read from the row's maximum-band cell alone; a row
\* whose maximum-band cell is blank or unreadable emits entries with a null
\* ceiling, and the minimum-band cell is never consulted.
C22_CeilingFromMaxColumnOnly ==
    [][(pc = "rows" /\ i' = i + 1 /\ ~skipped_material(args.tab[i].material)
            /\ row_has_numeric(args.tab[i]))
          => \A k \in 1..Len(Added) :
                Added[k].max_band = pricebook_clean_number(args.tab[i].max)]_vars
\* C22 as the code has it: the ceiling of a row's entries is the number in
\* its maximum-band cell; when that cell is blank or unreadable and the tab
\* has a minimum-band column, it is the number in the row's minimum-band
\* cell, and null when that is blank or unreadable too.
C22_CeilingFallsBackPerRow ==
    [][(pc = "rows" /\ i' = i + 1 /\ ~skipped_material(args.tab[i].material)
            /\ row_has_numeric(args.tab[i]))
          => LET from_max == pricebook_clean_number(args.tab[i].max)
                 from_min == pricebook_clean_number(args.tab[i].min)
             IN  /\ Added # <<>>
                 /\ \A k \in 1..Len(Added) :
                       /\ from_max # NoNumber => Added[k].max_band = from_max
                       /\ from_max = NoNumber => Added[k].max_band = from_min]_vars

\* a row with a dash for its maximum and 5 for its minimum that got the
\* ceiling 5, after a row with both cells filled that got its maximum, 10
C22_Witness ==
    /\ pc = "rows" /\ i = 3
    /\ args.tab[1].max = <<"1", "0">> /\ args.tab[1].min = <<"5">>
    /\ args.tab[2].max = <<"-">> /\ args.tab[2].min = <<"5">>
    /\ Len(results) = 2
    /\ results[1].max_band = Decimal(10, 0)
    /\ results[2].max_band = Decimal(5, 0)

\* ---- currency of a column header (pricebook_cleaner.detect_currency) ----

\* the two characters outside ASCII that the signal table names, each written
\* as one element of a text
PoundSign == "U+00A3"
EuroSign  == "U+20AC"

\* str.lower()
lower(s) ==
    [k \in 1..Len(s) |->
        IF \E n \in 1..Len(UpperCase) : UpperCase[n] = s[k]
        THEN LowerCase[CHOOSE n \in 1..Len(UpperCase) : UpperCase[n] = s[k]]
        ELSE s[k]]

\* the keys of CURRENCY_SIGNALS in the order of the table
CurrencyCodes == <<"USD", "CAD", "GBP", "AUD", "NZD", "ZAR", "EUR">>

CURRENCY_SIGNALS ==
    [USD |->
        [strong  |-> <<<<"u", "s", "d">>,
                       <<"u", "s", " ", "l", "i", "s", "t", " ", "p", "r", "i", "c", "e">>,
                       <<"u", "s", "$">>,
                       <<"u", "n", "i", "t", "e", "d", " ", "s", "t", "a", "t", "e", "s">>>>,
         weak    |-> <<<<"u", "s", " ">>,
                       <<" ", "u", "s">>,
                       <<"d", "o", "l", "l", "a", "r">>,
                       <<"a", "m", "e", "r", "i", "c", "a", "n">>>>,
         symbols |-> <<<<"$">>>>,
         exclude |-> <<<<"c", "a", "d">>,
                       <<"c", "a", "n", "a", "d", "a">>,
                       <<"a", "u", "$">>,
                       <<"n", "z", "$">>,
                       <<"a", "u", "d">>,
                       <<"n", "z", "d">>,
                       <<"a", "u", "s", " ">>,
                       <<"a", "u", "s", " ", "l", "i", "s", "t">>>>],
     CAD |->
        [strong  |-> <<<<"c", "a", "d">>,
                       <<"c", "a", "n", "a", "d", "a", " ", "l", "i", "s", "t", " ", "p", "r", "i", "c", "e">>,
                       <<"c", "a", "n", "a", "d", "i", "a", "n">>,
                       <<"c", "a", "$">>,
                       <<"c", "a", "n", "$">>>>,
         weak    |-> <<<<"c", "a", "n", "a", "d", "a">>,
                       <<"c", "a", "n", "a", "d", "i", "a", "n", " ", "d", "o", "l", "l", "a", "r">>>>,
         symbols |-> <<<<"c", "a", "$">>,
                       <<"c", "a", "n", "$">>>>,
         exclude |-> <<>>],
     GBP |->
        [strong  |-> <<<<"g", "b", "p">>,
                       <<"u", "k", " ", "l", "i", "s", "t", " ", "p", "r", "i", "c", "e">>,
                       <<"u", "n", "i", "t", "e", "d", " ", "k", "i", "n", "g", "d", "o", "m">>,
                       <<"b", "r", "i", "t", "a", "i", "n">>>>,
         weak    |-> <<<<"u", "k", " ">>,
                       <<" ", "u", "k">>,
                       <<"b", "r", "i", "t", "i", "s", "h">>,
                       <<"s", "t", "e", "r", "l", "i", "n", "g">>,
                       <<"p", "o", "u", "n", "d">>>>,
         symbols |-> <<<<PoundSign>>,
                       <<PoundSign>>>>,
         exclude |-> <<>>],
     AUD |->
        [strong  |-> <<<<"a", "u", "d">>,
                       <<"a", "u", "s", " ", "l", "i", "s", "t", " ", "p", "r", "i", "c", "e">>,
                       <<"a", "u", "s", "t", "r", "a", "l", "i", "a", " ", "l", "i", "s", "t">>,
                       <<"a", "u", "s", "t", "r", "a", "l", "i", "a", "n">>,
                       <<"a", "u", "s", " ", "l", "i", "s", "t">>>>,
         weak    |-> <<<<"a", "u", "s", " ">>,
                       <<" ", "a", "u", "s">>,
                       <<"a", "u", "s", "t", "r", "a", "l", "i", "a">>>>,
         symbols |-> <<<<"a", "$">>,
                       <<"a", "u", "$">>>>,
         exclude |-> <<<<"n", "z", "d">>,
                       <<"n", "z", "$">>,
                       <<"n", "e", "w", " ", "z", "e", "a", "l", "a", "n", "d">>>>],
     NZD |->
        [strong  |-> <<<<"n", "z", "d">>,
                       <<"n", "z", " ", "l", "i", "s", "t", " ", "p", "r", "i", "c", "e">>,
                       <<"n", "e", "w", " ", "z", "e", "a", "l", "a", "n", "d">>>>,
         weak    |-> <<<<"n", "z", " ">>,
                       <<" ", "n", "z">>>>,
         symbols |-> <<<<"n", "z", "$">>>>,
         exclude |-> <<>>],
     ZAR |->
        [strong  |-> <<<<"z", "a", "r">>,
                       <<"s", "o", "u", "t", "h", " ", "a", "f", "r", "i", "c", "a", " ", "l", "i", "s", "t">>,
                       <<"s", "o", "u", "t", "h", " ", "a", "f", "r", "i", "c", "a", "n">>>>,
         weak    |-> <<<<"a", "f", "r", "i", "c", "a">>,
                       <<"r", "a", "n", "d">>>>,
         symbols |-> <<<<"r">>>>,
         exclude |-> <<>>],
     EUR |->
        [strong  |-> <<<<"e", "u", "r">>,
                       <<"i", "r", "e", "l", "a", "n", "d", " ", "l", "i", "s", "t", " ", "p", "r", "i", "c", "e">>,
                       <<"e", "u", "r", "o">>>>,
         weak    |-> <<<<"i", "r", "e", "l", "a", "n", "d">>,
                       <<"e", "u", "r", "o", "p", "e">>,
                       <<"e", "u", "r", "o", "p", "e", "a", "n">>>>,
         symbols |-> <<<<EuroSign>>,
                       <<EuroSign>>>>,
         exclude |-> <<>>]]

\* any(sig in text for sig in sigs)
any_in(sigs, text) == \E n \in 1..Len(sigs) : contains(text, sigs[n])

\* lines 115-116: one of the currency's exclusions is in the header
excluded(code, col_name) ==
    any_in(CURRENCY_SIGNALS[code].exclude, strip(lower(col_name)))

\* lines 113-129: the score of one currency for a header
score(code, col_name) ==
    LET col_lower == strip(lower(col_name))
        col_orig  == strip(col_name)
        signals   == CURRENCY_SIGNALS[code]
        strong    == IF any_in(signals.strong, col_lower) THEN 10 ELSE 0
        symbol    == IF \E n \in 1..Len(signals.symbols) :
                           \/ contains(col_orig, signals.symbols[n])
                           \/ contains(col_lower, signals.symbols[n])
                     THEN 8 ELSE 0
        weak_hits == Cardinality({n \in 1..Len(signals.weak) :
                                     contains(col_lower, signals.weak[n])})
    IN  strong + symbol + weak_hits * 3

\* candidates with the exclusion test of lines 115-116 left out
candidates_with_excluded(col_name) ==
    SelectSeq(CurrencyCodes, LAMBDA code : score(code, col_name) > 0)

\* the keys of candidates, in the order they were inserted
candidates(col_name) ==
    SelectSeq(CurrencyCodes,
              LAMBDA code : ~excluded(code, col_name) /\ score(code, col_name) > 0)

NoCurrency == <<"None", "0">>

\* detect_currency(col_name): <<code, confidence>>, or NoCurrency for (None, 0)
detect_currency(col_name) ==
    LET cand       == candidates(col_name)
        \* max(candidates, key=candidates.get): the first key of the top score
        best       == CHOOSE k \in 1..Len(cand) :
                          /\ \A j \in 1..Len(cand) :
                                score(cand[j], col_name) <= score(cand[k], col_name)
                          /\ \A j \in 1..(k - 1) :
                                score(cand[j], col_name) < score(cand[k], col_name)
        best_score == score(cand[best], col_name)
        \* sorted_scores[1]: the top score among the other candidates
        second     == CHOOSE k \in (1..Len(cand)) \ {best} :
                          \A j \in (1..Len(cand)) \ {best} :
                              score(cand[j], col_name) <= score(cand[k], col_name)
    IN  IF cand = <<>> THEN NoCurrency
        ELSE IF Len(cand) > 1 /\ best_score - score(cand[second], col_name) <= 3
        THEN NoCurrency
        ELSE IF best_score >= 10 THEN <<cand[best], "high">>
        ELSE IF best_score >= 6 THEN <<cand[best], "medium">>
        ELSE <<cand[best], "low">>

\* ---- the headers detect_currency is called with ----

MaxWords == 2      \* words of a header

HeaderWords ==
    {<<"U", "S", "D">>, <<"G", "B", "P">>, <<"C", "A", "D">>, <<"A", "U", "D">>,
     <<"Z", "A", "R">>, <<"E", "U", "R">>, <<"U", "K">>, <<"U", "S">>,
     <<"C", "a", "n", "a", "d", "a">>, <<"P", "o", "u", "n", "d">>,
     <<"S", "t", "e", "r", "l", "i", "n", "g">>,
     <<"A", "u", "s", "t", "r", "a", "l", "i", "a", "n">>,
     <<"$">>, <<PoundSign>>, <<"A", "U", "$">>,
     <<"C", "o", "s", "t">>, <<"P", "r", "i", "c", "e">>, <<"2", "0", "2", "6">>}

\* ' '.join(words)
RECURSIVE join(_)
join(words) ==
    IF words = <<>> THEN <<>>
    ELSE IF Len(words) = 1 THEN words[1]
    ELSE words[1] \o <<" ">> \o join(Tail(words))

\* headers of one to MaxWords words, and the one-word headers with blanks
\* around them
Headers ==
    {join(w) : w \in SeqsUpTo(HeaderWords, MaxWords) \ {<<>>}}
    \cup {<<" ">> \o w \o <<" ">> : w \in HeaderWords}

CurrencyInit ==
    /\ args \in [col_name : Headers]
    /\ ret = <<>>
    /\ disk = <<>> /\ console = {}
    /\ pc = "call"
    /\ pb = <<>> /\ sap = <<>> /\ i = 1 /\ results = <<>> /\ no_match_samples = <<>>

\* currency, confidence = detect_currency(col)
DetectCurrency ==
    /\ pc = "call"
    /\ ret' = detect_currency(args.col_name)
    /\ pc' = "returned"
    /\ UNCHANGED <<pb, sap, i, results, no_match_samples, args, disk, console>>

CurrencyNext == DetectCurrency

CurrencySpec == CurrencyInit /\ [][CurrencyNext]_vars
CodeSet == {CurrencyCodes[n] : n \in 1..Len(CurrencyCodes)}

strong_match(code, col_name) ==
    any_in(CURRENCY_SIGNALS[code].strong, strip(lower(col_name)))

symbol_match(code, col_name) ==
    \/ any_in(CURRENCY_SIGNALS[code].symbols, strip(col_name))
    \/ any_in(CURRENCY_SIGNALS[code].symbols, strip(lower(col_name)))

weak_matches(code, col_name) ==
    Cardinality({n \in 1..Len(CURRENCY_SIGNALS[code].weak) :
                    contains(strip(lower(col_name)), CURRENCY_SIGNALS[code].weak[n])})

\* the score the rule gives a currency: 10 for a strong phrase, 8 for a
\* symbol, 3 for each weak fragment
points(code, col_name) ==
    (IF strong_match(code, col_name) THEN 10 ELSE 0)
    + (IF symbol_match(code, col_name) THEN 8 ELSE 0)
    + 3 * weak_matches(code, col_name)

\* C23: detect_currency scores each currency that none of its own exclusions
\* disqualifies (10 for a strong phrase, 8 for a symbol, 3 per weak fragment)
\* and returns the one of highest score; it returns no currency when nothing
\* scores, or when two or more score and the top two are within 3 points; a
\* currency with a matching exclusion is never returned.
C23_CurrencyScoring ==
    pc = "returned"
        => LET h        == args.col_name
               scoring  == {c \in CodeSet : ~excluded(c, h) /\ points(c, h) > 0}
               top      == {c \in scoring : \A d \in scoring : points(d, h) <= points(c, h)}
               close    == \E c \in top : \E d \in scoring \ {c} :
                              points(c, h) - points(d, h) <= 3
           IN  /\ (scoring = {} \/ close) => ret = NoCurrency
               /\ (scoring # {} /\ ~close) => top = {ret[1]}
               /\ ret # NoCurrency => ~excluded(ret[1], h)

\* "USD CAD": USD is disqualified by its exclusion 'cad' and CAD is returned
C23_Witness ==
    /\ pc = "returned"
    /\ args.col_name = <<"U", "S", "D", " ", "C", "A", "D">>
    /\ excluded("USD", args.col_name) /\ points("USD", args.col_name) = 10
    /\ ret = <<"CAD", "high">>

\* C24: a header is given a currency only when it matches a strong signal
\* of that currency or two of its weak signals at least; one weak fragment
\* alone, or a symbol alone, gives no currency.
C24_StrongOrTwoWeak ==
    (pc = "returned" /\ ret # NoCurrency)
        => \/ strong_match(ret[1], args.col_name)
           \/ weak_matches(ret[1], args.col_name) >= 2

\* C30: a header with a strong phrase of a currency C and none of C's
\* exclusions, no strong phrase or weak fragment of another currency, and
\* none of the characters $, pound sign, euro sign, is given the currency C.
C30_StrongPhraseClassifies ==
    pc = "returned"
        => \A C \in CodeSet :
              (/\ strong_match(C, args.col_name)
               /\ ~excluded(C, args.col_name)
               /\ \A D \in CodeSet \ {C} :
                     /\ ~strong_match(D, args.col_name)
                     /\ weak_matches(D, args.col_name) = 0
               /\ \A k \in 1..Len(args.col_name) :
                     args.col_name[k] \notin {"$", PoundSign, EuroSign})
                  => ret[1] = C
\* ---- the identity column of a tab (pricebook_cleaner.find_part_number_col) ----

\* \w of a regular expression, on the characters of a lowered header
WordChars ==
    {LowerCase[n] : n \in 1..Len(LowerCase)}
    \cup {"0", "1", "2", "3", "4", "5", "6", "7", "8", "9", "_"}

\* the positions right after an occurrence of sub in s that starts at from
\* or later
ends_of(s, sub, from) ==
    {k + Len(sub) : k \in {j \in from..(Len(s) - Len(sub) + 1) :
                              SubSeq(s, j, j + Len(sub) - 1) = sub}}

\* re.search of 'a.*b': a, and b anywhere after it
search2(s, a, b) == \E p \in ends_of(s, a, 1) : ends_of(s, b, p) # {}

\* re.search of 'a.*b.*c'
search3(s, a, b, c) ==
    \E p \in ends_of(s, a, 1) : \E q \in ends_of(s, b, p) : ends_of(s, c, q) # {}

\* re.search of 'a.*b\b': the occurrence of b ends the text or is followed by
\* a character that is not a word character (b ends in a word character)
search2_boundary(s, a, b) ==
    \E p \in ends_of(s, a, 1) : \E q \in ends_of(s, b, p) :
        q > Len(s) \/ s[q] \notin WordChars

\* lines 198-205: the number of patterns
NumPatterns == 6

\* re.search(patterns[n], col_lower)
pattern_matches(n, col_lower) ==
    CASE n = 1 -> search3(col_lower, <<"i", "d", "e", "x", "x">>, <<"p", "a", "r", "t">>,
                          <<"n", "u", "m", "b", "e", "r">>)
      [] n = 2 -> search2(col_lower, <<"p", "a", "r", "t">>, <<"n", "u", "m", "b", "e", "r">>)
      [] n = 3 -> col_lower = <<"m", "a", "t", "e", "r", "i", "a", "l">>
      [] n = 4 -> search2_boundary(col_lower, <<"p", "a", "r", "t">>, <<"n", "o">>)
      [] n = 5 -> contains(col_lower, <<"p", "a", "r", "t", "#">>)
      [] n = 6 -> contains(col_lower, <<"s", "k", "u">>)

NoColumn == <<"<None>">>

\* any(re.search(pat, col_lower) for pat in patterns)
matches_a_pattern(col) ==
    \E n \in 1..NumPatterns : pattern_matches(n, strip(lower(col)))

\* find_part_number_col(columns): columns in the outer loop, patterns inside
find_part_number_col(columns) ==
    LET hits == {k \in 1..Len(columns) : matches_a_pattern(columns[k])}
    IN  IF hits = {} THEN NoColumn
        ELSE columns[CHOOSE k \in hits : \A j \in hits : k <= j]

MaxColumns == 2    \* columns of a header row

ColumnNames ==
    {<<"S", "K", "U">>,
     <<"P", "a", "r", "t", " ", "N", "u", "m", "b", "e", "r">>,
     <<"I", "D", "E", "X", "X", " ", "P", "a", "r", "t", " ", "N", "u", "m", "b", "e", "r">>,
     <<"I", "D", "E", "X", "X", " ", "N", "u", "m", "b", "e", "r">>,
     <<"M", "a", "t", "e", "r", "i", "a", "l">>,
     <<"M", "a", "t", "e", "r", "i", "a", "l", " ", "G", "r", "o", "u", "p">>,
     <<"P", "a", "r", "t", " ", "N", "o">>,
     <<"P", "a", "r", "t", " ", "N", "o", "t", "e", "s">>,
     <<"P", "a", "r", "t", "#">>,
     <<"N", "u", "m", "b", "e", "r", " ", "o", "f", " ", "P", "a", "r", "t", "s">>,
     <<"D", "e", "s", "c", "r", "i", "p", "t", "i", "o", "n">>}

IdentityInit ==
    /\ args \in [columns : SeqsUpTo(ColumnNames, MaxColumns) \ {<<>>}]
    /\ ret = <<>>
    /\ disk = <<>> /\ console = {}
    /\ pc = "call"
    /\ pb = <<>> /\ sap = <<>> /\ i = 1 /\ results = <<>> /\ no_match_samples = <<>>

\* part_col = find_part_number_col(df.columns)
FindPartNumberCol ==
    /\ pc = "call"
    /\ ret' = find_part_number_col(args.columns)
    /\ pc' = "returned"
    /\ UNCHANGED <<pb, sap, i, results, no_match_samples, args, disk, console>>

IdentityNext == FindPartNumberCol

IdentitySpec == IdentityInit /\ [][IdentityNext]_vars

\* the rank of the first pattern that matches a column, NumPatterns + 1 when
\* none does
priority(col) ==
    LET pats == {n \in 1..NumPatterns : pattern_matches(n, strip(lower(col)))}
    IN  IF pats = {} THEN NumPatterns + 1
        ELSE CHOOSE m \in pats : \A o \in pats : m <= o

\* C21: find_part_number_col returns a column that matches the pattern of
\* highest priority among the patterns any column matches, wherever the
\* column stands: no column of the header has a better pattern than the one
\* returned, and no column is returned only when none matches.
C21_PatternPriority ==
    pc = "returned"
        => LET cols == {args.columns[k] : k \in 1..Len(args.columns)}
           IN  IF \A c \in cols : priority(c) > NumPatterns
               THEN ret = NoColumn
               ELSE /\ ret \in cols
                    /\ \A c \in cols : priority(ret) <= priority(c)
====
